---- MODULE Spec2Model ----
(***************************************************************************)
(* Registry discovery, registration, peer directory and tunnel relay of    *)
(* the M5Stick NANDA agent (firmware/m5stick-nanda/src/main.cpp).          *)
(*                                                                         *)
(* Strings that the firmware searches or takes apart (URLs, mDNS host      *)
(* names, request paths) are sequences of tokens, split at the patterns    *)
(* the firmware looks for, so that indexOf, startsWith, replace, substring *)
(* and toInt are computed and not assumed; the empty String is <<>>.       *)
(* Every handler is an operator from the globals record and the outcomes   *)
(* of its network calls to the new globals, the list of events it produced *)
(* (calls, network requests, writes, returns) and its result.              *)
(***************************************************************************)
EXTENDS Integers, Sequences, FiniteSets, TLC

VARIABLES
    pc,                 \* position of the firmware: "boot", "loop", or a harness position
    input,              \* the environment's answers drawn for a harness run
    wifiConnected,      \* main.cpp:92
    registryUrl,        \* main.cpp:103
    registryConnected,  \* main.cpp:104
    heartbeatFailures,  \* main.cpp:106
    discoveredAgents,   \* main.cpp:115-116, the first discoveredAgentCount slots
    tunnelConnected,    \* main.cpp:121
    wsState,            \* the WebSocketsClient's own link state
    currentScreen,      \* main.cpp:74
    lastOp,             \* the handler that ran last
    log,                \* the events of the handler that ran last
    failStreak,         \* history: heartbeat requests that failed in a row
    clock               \* millis() against the timers of loop(), and the times of tunnel events

vars == <<pc, input, wifiConnected, registryUrl, registryConnected,
          heartbeatFailures, discoveredAgents, tunnelConnected, wsState,
          currentScreen, lastOp, log, failStreak, clock>>

-----------------------------------------------------------------------------
(* Program constants *)

DEFAULT_REGISTRY_PORT == 3000
MaxAgents == 10
HeartbeatFailLimit == 3
MENU_COUNT == 8
HEARTBEAT_INTERVAL == 30000
TUNNEL_RECONNECT_INTERVAL == 10000
WS_RECONNECT_INTERVAL == 5000       \* webSocket.setReconnectInterval(5000)
WS_PING_INTERVAL == 15000           \* webSocket.enableHeartbeat(15000, 3000, 2)
WS_DISCONNECT_TIMEOUT_COUNT == 2

MENU_HOME == "MENU_HOME"
MENU_DISCOVERY == "MENU_DISCOVERY"
MenuOrder ==
    <<"MENU_HOME", "MENU_SENSORS", "MENU_NETWORK", "MENU_DISCOVERY",
      "MENU_BATTERY", "MENU_IR", "MENU_FX", "MENU_QR">>

PUBLIC_REGISTRY_LIST ==
    <<"https://", "raw.githubusercontent.com", "/nanda-framework/registries/main/list.json">>

deviceHandle == "m5stick-a1b2c3"
deviceIP == "192.168.1.77"

(* Bounds of the model *)

MaxResponding == 2      \* probe candidates that answer at all in one sweep
MaxListed == 11         \* agents listed by one registry response
LoopListed == 1         \* agents listed by a response in the full device model
TickMs == 5000          \* milliseconds by which the clock advances in one step

-----------------------------------------------------------------------------
(* Helpers *)

\* String::indexOf on a tokenised string: 0-based position of the first
\* occurrence of tok, -1 when absent.
IndexOf(s, tok) ==
    IF \E i \in 1..Len(s) : s[i] = tok
    THEN (CHOOSE i \in 1..Len(s) : s[i] = tok /\ \A j \in 1..(i - 1) : s[j] # tok) - 1
    ELSE -1

\* String::toInt on a tokenised string: the number its leading digits spell,
\* 0 when it does not start with digits.
ToInt(s) ==
    IF Len(s) = 0 THEN 0
    ELSE CASE s[1] = "80" -> 80
           [] s[1] = "3000" -> 3000
           [] s[1] = "8080" -> 8080
           [] s[1] = "440" -> 440
           [] s[1] = "50" -> 50
           [] OTHER -> 0

\* String::replace(tok, "")
Without(s, tok) == SelectSeq(s, LAMBDA t : t # tok)

\* String::substring(from) with a 0-based token position
SubstringFrom(s, from) == SubSeq(s, from + 1, Len(s))

\* String::substring(0, to)
SubstringTo(s, to) == SubSeq(s, 1, to)

\* IPAddress::toString
IpToString(ip) ==
    ToString(ip[1]) \o "." \o ToString(ip[2]) \o "." \o ToString(ip[3])
        \o "." \o ToString(ip[4])

\* gatewayStr.substring(0, gatewayStr.lastIndexOf('.'))
SubnetOf(ip) ==
    ToString(ip[1]) \o "." \o ToString(ip[2]) \o "." \o ToString(ip[3])

HttpGet(url, code) == [k |-> "http", method |-> "GET", url |-> url, code |-> code]
HttpPost(url, code) == [k |-> "http", method |-> "POST", url |-> url, code |-> code]
MdnsQuery(service) == [k |-> "mdns", service |-> service]
Call(f) == [k |-> "call", f |-> f]
Ret(f, v) == [k |-> "ret", f |-> f, v |-> v]
SetFlag(name, v) == [k |-> "set", name |-> name, v |-> v]
WsSend(msg) == [k |-> "send", msg |-> msg]
WsBegin(host, port, path) == [k |-> "begin", host |-> host, port |-> port, path |-> path]

IsNet(e) == e.k \in {"http", "mdns", "begin", "send"}
NetCalls(l) == SelectSeq(l, IsNet)
CountCalls(l, f) == Cardinality({i \in 1..Len(l) : l[i].k = "call" /\ l[i].f = f})
HttpTo(l, method, url) ==
    {i \in 1..Len(l) : l[i].k = "http" /\ l[i].method = method /\ l[i].url = url}
Last(l) == l[Len(l)]

-----------------------------------------------------------------------------
(* Registry Locator *)

\* Faulty variant: the first entry of the list that has a url is taken.
fetchPublicRegistry_FirstWithUrl(pub) ==
    LET withUrl == IF pub.code = 200 /\ pub.parses
                   THEN SelectSeq(pub.registries, LAMBDA r : Len(r.url) > 0)
                   ELSE <<>>
    IN  [ret |-> IF Len(withUrl) > 0 THEN withUrl[1].url ELSE <<>>,
         log |-> <<HttpGet(PUBLIC_REGISTRY_LIST, pub.code)>>]

\* fetchPublicRegistry: one HTTPS GET; the first entry's url when the
\* document is a 200, parses and lists something; "" otherwise.
fetchPublicRegistry(pub) ==
    LET url ==
            IF pub.code = 200
            THEN IF pub.parses
                 THEN IF Len(pub.registries) > 0
                      THEN IF Len(pub.registries[1].url) > 0
                           THEN pub.registries[1].url
                           ELSE <<>>
                      ELSE <<>>
                 ELSE <<>>
            ELSE <<>>
    IN  [ret |-> url, log |-> <<HttpGet(PUBLIC_REGISTRY_LIST, pub.code)>>]

\* "http://" + ip.toString() + ":" + String(port)
MdnsUrl(rec) == <<"http://", IpToString(rec.ip), ":", ToString(rec.port)>>

IsRegistryHost(host) == IndexOf(host, "nanda") >= 0 \/ IndexOf(host, "registry") >= 0

\* Faulty variant: the first generic http record is taken whatever its name.
discoverRegistryMDNS_TakesAnyGeneric(mdns) ==
    IF Len(mdns.dedicated) > 0
    THEN [ret |-> MdnsUrl(mdns.dedicated[1]),
          log |-> <<MdnsQuery("nanda-registry")>>]
    ELSE [ret |-> IF Len(mdns.http) > 0 THEN MdnsUrl(mdns.http[1]) ELSE <<>>,
          log |-> <<MdnsQuery("nanda-registry"), MdnsQuery("http")>>]

\* discoverRegistryMDNS: the dedicated record first; the generic http
\* records are queried only when there is none, and the first whose host
\* name contains "nanda" or "registry" is taken.
discoverRegistryMDNS(mdns) ==
    IF Len(mdns.dedicated) > 0
    THEN [ret |-> MdnsUrl(mdns.dedicated[1]),
          log |-> <<MdnsQuery("nanda-registry")>>]
    ELSE LET hits == {i \in 1..Len(mdns.http) : IsRegistryHost(mdns.http[i].host)}
             first == CHOOSE i \in hits : \A j \in hits : i <= j
         IN  [ret |-> IF hits # {} THEN MdnsUrl(mdns.http[first]) ELSE <<>>,
              log |-> <<MdnsQuery("nanda-registry"), MdnsQuery("http")>>]

\* String candidates[] of autoDetectRegistry, in source order
Candidates(gateway) ==
    LET gatewayStr == IpToString(gateway)
        subnet == SubnetOf(gateway)
        port == ToString(DEFAULT_REGISTRY_PORT)
    IN  << <<"http://", gatewayStr, ":", port>>,
           <<"http://", subnet \o ".192", ":", port>>,
           <<"http://", subnet \o ".100", ":", port>>,
           <<"http://", subnet \o ".1", ":", port>>,
           <<"http://", subnet \o ".104", ":", port>>,
           <<"http://", subnet \o ".105", ":", port>>,
           <<"http://", subnet \o ".102", ":", port>>,
           <<"http://", subnet \o ".103", ":", port>>,
           <<"http://", subnet \o ".10", ":", port>>,
           <<"http://", subnet \o ".50", ":", port>> >>

HealthUrl(base) == base \o <<"/health">>

\* Faulty variant of the sweep: no return at the first 200, so the last
\* candidate that answers 200 wins.
RECURSIVE ProbeSweep_LastWins(_, _, _, _)
ProbeSweep_LastWins(cands, probe, i, done) ==
    IF i > Len(cands)
    THEN [ret |-> <<>>, log |-> done]
    ELSE LET l == Append(done, HttpGet(HealthUrl(cands[i]), probe[i]))
             rest == ProbeSweep_LastWins(cands, probe, i + 1, l)
         IN  IF probe[i] = 200 /\ rest.ret = <<>>
             THEN [ret |-> cands[i], log |-> rest.log]
             ELSE rest

\* for (String candidate : candidates): probe in list order, stop at the
\* first 200.  probe[i] is the answer to the i-th request of the sweep.
RECURSIVE ProbeSweep(_, _, _, _)
ProbeSweep(cands, probe, i, done) ==
    IF i > Len(cands)
    THEN [ret |-> <<>>, log |-> done]
    ELSE LET l == Append(done, HttpGet(HealthUrl(cands[i]), probe[i]))
         IN  IF probe[i] = 200
             THEN [ret |-> cands[i], log |-> l]
             ELSE ProbeSweep(cands, probe, i + 1, l)

\* "http://" + gatewayStr + ":" + String(DEFAULT_REGISTRY_PORT)
FallbackUrl(gateway) ==
    <<"http://", IpToString(gateway), ":", ToString(DEFAULT_REGISTRY_PORT)>>

\* Faulty variants of autoDetectRegistry: one that health-checks the saved
\* preference before trusting it, one that lacks the final gateway fallback.
autoDetectRegistry_VerifiesSaved(in) ==
    LET check == IF Len(in.saved) > 0
                 THEN <<HttpGet(HealthUrl(in.saved), in.mdnsCode)>>
                 ELSE <<>>
        sweep == ProbeSweep(Candidates(in.gateway), in.probe, 1, check)
    IN  IF Len(in.saved) > 0 /\ in.mdnsCode = 200
        THEN [url |-> in.saved, log |-> check]
        ELSE IF Len(sweep.ret) > 0
             THEN [url |-> sweep.ret, log |-> sweep.log]
             ELSE [url |-> FallbackUrl(in.gateway), log |-> sweep.log]

autoDetectRegistry_NoFallback(in) ==
    IF Len(in.saved) > 0
    THEN [url |-> in.saved, log |-> <<>>]
    ELSE LET sweep == ProbeSweep(Candidates(in.gateway), in.probe, 1, <<>>)
             pub == fetchPublicRegistry(in.pub)
         IN  IF Len(sweep.ret) > 0
             THEN [url |-> sweep.ret, log |-> sweep.log]
             ELSE [url |-> pub.ret, log |-> sweep.log \o pub.log]

\* autoDetectRegistry: saved preference, mDNS (verified by a health check),
\* LAN sweep, public list, gateway fallback.
autoDetectRegistry(in) ==
    IF Len(in.saved) > 0
    THEN [url |-> in.saved, log |-> <<>>]
    ELSE
    LET m == discoverRegistryMDNS(in.mdns)
        verify == IF Len(m.ret) > 0
                  THEN m.log \o <<HttpGet(HealthUrl(m.ret), in.mdnsCode)>>
                  ELSE m.log
    IN  IF Len(m.ret) > 0 /\ in.mdnsCode = 200
        THEN [url |-> m.ret, log |-> verify]
        ELSE
        LET sweep == ProbeSweep(Candidates(in.gateway), in.probe, 1, verify)
        IN  IF Len(sweep.ret) > 0
            THEN [url |-> sweep.ret, log |-> sweep.log]
            ELSE
            LET pub == fetchPublicRegistry(in.pub)
                l == sweep.log \o pub.log
            IN  IF Len(pub.ret) > 0
                THEN [url |-> pub.ret, log |-> l]
                ELSE [url |-> FallbackUrl(in.gateway), log |-> l]

-----------------------------------------------------------------------------
(* Registration Client *)

AgentsUrl(base) == base \o <<"/agents">>
HeartbeatUrl(base) == base \o <<"/heartbeat">>

\* Faulty variants of registerWithRegistry: one that takes only 200 for
\* success, one whose success does not reset the failure counter.
registerWithRegistry_Only200(g, httpCode) ==
    IF ~g.wifiConnected
    THEN [g |-> g, ret |-> FALSE,
          log |-> <<Call("registerWithRegistry"), Ret("registerWithRegistry", FALSE)>>]
    ELSE IF httpCode = 200
         THEN [g |-> [g EXCEPT !.registryConnected = TRUE, !.heartbeatFailures = 0],
               ret |-> TRUE,
               log |-> <<Call("registerWithRegistry"),
                         HttpPost(AgentsUrl(g.registryUrl), httpCode),
                         SetFlag("registryConnected", TRUE),
                         Ret("registerWithRegistry", TRUE)>>]
         ELSE [g |-> g, ret |-> FALSE,
               log |-> <<Call("registerWithRegistry"),
                         HttpPost(AgentsUrl(g.registryUrl), httpCode),
                         Ret("registerWithRegistry", FALSE)>>]

registerWithRegistry_KeepsCounter(g, httpCode) ==
    IF ~g.wifiConnected
    THEN [g |-> g, ret |-> FALSE,
          log |-> <<Call("registerWithRegistry"), Ret("registerWithRegistry", FALSE)>>]
    ELSE IF httpCode = 200 \/ httpCode = 201
         THEN [g |-> [g EXCEPT !.registryConnected = TRUE],
               ret |-> TRUE,
               log |-> <<Call("registerWithRegistry"),
                         HttpPost(AgentsUrl(g.registryUrl), httpCode),
                         SetFlag("registryConnected", TRUE),
                         Ret("registerWithRegistry", TRUE)>>]
         ELSE [g |-> g, ret |-> FALSE,
               log |-> <<Call("registerWithRegistry"),
                         HttpPost(AgentsUrl(g.registryUrl), httpCode),
                         Ret("registerWithRegistry", FALSE)>>]

\* registerWithRegistry: POST {handle, url} to <registryUrl>/agents.
registerWithRegistry(g, httpCode) ==
    IF ~g.wifiConnected
    THEN [g |-> g, ret |-> FALSE,
          log |-> <<Call("registerWithRegistry"), Ret("registerWithRegistry", FALSE)>>]
    ELSE IF httpCode = 200 \/ httpCode = 201
         THEN [g |-> [g EXCEPT !.registryConnected = TRUE, !.heartbeatFailures = 0],
               ret |-> TRUE,
               log |-> <<Call("registerWithRegistry"),
                         HttpPost(AgentsUrl(g.registryUrl), httpCode),
                         SetFlag("registryConnected", TRUE),
                         Ret("registerWithRegistry", TRUE)>>]
         ELSE [g |-> g, ret |-> FALSE,
               log |-> <<Call("registerWithRegistry"),
                         HttpPost(AgentsUrl(g.registryUrl), httpCode),
                         Ret("registerWithRegistry", FALSE)>>]

\* Faulty variants of sendHeartbeat: one without the registered guard, one
\* that gives up at the third failure, one that drops the registration
\* without registering again, one that re-targets the gateway before
\* registering again.
sendHeartbeat_NoGuard(g, httpCode, registerCode) ==
    IF ~g.wifiConnected
    THEN [g |-> g, ret |-> FALSE,
          log |-> <<Call("sendHeartbeat"), Ret("sendHeartbeat", FALSE)>>]
    ELSE
    LET post == <<Call("sendHeartbeat"), HttpPost(HeartbeatUrl(g.registryUrl), httpCode)>>
    IN  IF httpCode = 200
        THEN [g |-> [g EXCEPT !.heartbeatFailures = 0], ret |-> TRUE,
              log |-> post \o <<Ret("sendHeartbeat", TRUE)>>]
        ELSE
        LET g1 == [g EXCEPT !.heartbeatFailures = g.heartbeatFailures + 1]
        IN  IF g1.heartbeatFailures > HeartbeatFailLimit
            THEN LET g2 == [g1 EXCEPT !.registryConnected = FALSE]
                     r == registerWithRegistry(g2, registerCode)
                 IN  [g |-> r.g, ret |-> FALSE,
                      log |-> post \o <<SetFlag("registryConnected", FALSE)>>
                                   \o r.log \o <<Ret("sendHeartbeat", FALSE)>>]
            ELSE [g |-> g1, ret |-> FALSE,
                  log |-> post \o <<Ret("sendHeartbeat", FALSE)>>]

sendHeartbeat_ThreeStrikes(g, httpCode, registerCode) ==
    IF ~g.wifiConnected \/ ~g.registryConnected
    THEN [g |-> g, ret |-> FALSE,
          log |-> <<Call("sendHeartbeat"), Ret("sendHeartbeat", FALSE)>>]
    ELSE
    LET post == <<Call("sendHeartbeat"), HttpPost(HeartbeatUrl(g.registryUrl), httpCode)>>
    IN  IF httpCode = 200
        THEN [g |-> [g EXCEPT !.heartbeatFailures = 0], ret |-> TRUE,
              log |-> post \o <<Ret("sendHeartbeat", TRUE)>>]
        ELSE
        LET g1 == [g EXCEPT !.heartbeatFailures = g.heartbeatFailures + 1]
        IN  IF g1.heartbeatFailures >= HeartbeatFailLimit
            THEN LET g2 == [g1 EXCEPT !.registryConnected = FALSE]
                     r == registerWithRegistry(g2, registerCode)
                 IN  [g |-> r.g, ret |-> FALSE,
                      log |-> post \o <<SetFlag("registryConnected", FALSE)>>
                                   \o r.log \o <<Ret("sendHeartbeat", FALSE)>>]
            ELSE [g |-> g1, ret |-> FALSE,
                  log |-> post \o <<Ret("sendHeartbeat", FALSE)>>]

sendHeartbeat_NoReregister(g, httpCode, registerCode) ==
    IF ~g.wifiConnected \/ ~g.registryConnected
    THEN [g |-> g, ret |-> FALSE,
          log |-> <<Call("sendHeartbeat"), Ret("sendHeartbeat", FALSE)>>]
    ELSE
    LET post == <<Call("sendHeartbeat"), HttpPost(HeartbeatUrl(g.registryUrl), httpCode)>>
    IN  IF httpCode = 200
        THEN [g |-> [g EXCEPT !.heartbeatFailures = 0], ret |-> TRUE,
              log |-> post \o <<Ret("sendHeartbeat", TRUE)>>]
        ELSE
        LET g1 == [g EXCEPT !.heartbeatFailures = g.heartbeatFailures + 1]
        IN  IF g1.heartbeatFailures > HeartbeatFailLimit
            THEN LET g2 == [g1 EXCEPT !.registryConnected = FALSE]
                     r == [g |-> g2, log |-> <<>>]
                 IN  [g |-> r.g, ret |-> FALSE,
                      log |-> post \o <<SetFlag("registryConnected", FALSE)>>
                                   \o r.log \o <<Ret("sendHeartbeat", FALSE)>>]
            ELSE [g |-> g1, ret |-> FALSE,
                  log |-> post \o <<Ret("sendHeartbeat", FALSE)>>]

sendHeartbeat_Relocates(g, httpCode, registerCode) ==
    IF ~g.wifiConnected \/ ~g.registryConnected
    THEN [g |-> g, ret |-> FALSE,
          log |-> <<Call("sendHeartbeat"), Ret("sendHeartbeat", FALSE)>>]
    ELSE
    LET post == <<Call("sendHeartbeat"), HttpPost(HeartbeatUrl(g.registryUrl), httpCode)>>
    IN  IF httpCode = 200
        THEN [g |-> [g EXCEPT !.heartbeatFailures = 0], ret |-> TRUE,
              log |-> post \o <<Ret("sendHeartbeat", TRUE)>>]
        ELSE
        LET g1 == [g EXCEPT !.heartbeatFailures = g.heartbeatFailures + 1]
        IN  IF g1.heartbeatFailures > HeartbeatFailLimit
            THEN LET g2 == [g1 EXCEPT !.registryConnected = FALSE,
                                     !.registryUrl = FallbackUrl(<<192, 168, 1, 1>>)]
                     r == registerWithRegistry(g2, registerCode)
                 IN  [g |-> r.g, ret |-> FALSE,
                      log |-> post \o <<SetFlag("registryConnected", FALSE)>>
                                   \o r.log \o <<Ret("sendHeartbeat", FALSE)>>]
            ELSE [g |-> g1, ret |-> FALSE,
                  log |-> post \o <<Ret("sendHeartbeat", FALSE)>>]

\* Faulty variant: a success takes one failure off the counter instead of
\* clearing it.
sendHeartbeat_SuccessDecrements(g, httpCode, registerCode) ==
    IF ~g.wifiConnected \/ ~g.registryConnected
    THEN [g |-> g, ret |-> FALSE,
          log |-> <<Call("sendHeartbeat"), Ret("sendHeartbeat", FALSE)>>]
    ELSE
    LET post == <<Call("sendHeartbeat"), HttpPost(HeartbeatUrl(g.registryUrl), httpCode)>>
    IN  IF httpCode = 200
        THEN [g |-> [g EXCEPT !.heartbeatFailures =
                                  IF g.heartbeatFailures > 0
                                  THEN g.heartbeatFailures - 1 ELSE 0],
              ret |-> TRUE,
              log |-> post \o <<Ret("sendHeartbeat", TRUE)>>]
        ELSE
        LET g1 == [g EXCEPT !.heartbeatFailures = g.heartbeatFailures + 1]
        IN  IF g1.heartbeatFailures > HeartbeatFailLimit
            THEN LET g2 == [g1 EXCEPT !.registryConnected = FALSE]
                     r == registerWithRegistry(g2, registerCode)
                 IN  [g |-> r.g, ret |-> FALSE,
                      log |-> post \o <<SetFlag("registryConnected", FALSE)>>
                                   \o r.log \o <<Ret("sendHeartbeat", FALSE)>>]
            ELSE [g |-> g1, ret |-> FALSE,
                  log |-> post \o <<Ret("sendHeartbeat", FALSE)>>]

\* Faulty variant: failures are counted but the registration is never
\* dropped.
sendHeartbeat_NeverDrops(g, httpCode, registerCode) ==
    IF ~g.wifiConnected \/ ~g.registryConnected
    THEN [g |-> g, ret |-> FALSE,
          log |-> <<Call("sendHeartbeat"), Ret("sendHeartbeat", FALSE)>>]
    ELSE
    LET post == <<Call("sendHeartbeat"), HttpPost(HeartbeatUrl(g.registryUrl), httpCode)>>
    IN  IF httpCode = 200
        THEN [g |-> [g EXCEPT !.heartbeatFailures = 0], ret |-> TRUE,
              log |-> post \o <<Ret("sendHeartbeat", TRUE)>>]
        ELSE [g |-> [g EXCEPT !.heartbeatFailures = g.heartbeatFailures + 1],
              ret |-> FALSE,
              log |-> post \o <<Ret("sendHeartbeat", FALSE)>>]

\* Faulty variant: a heartbeat of an unregistered device registers again.
sendHeartbeat_RetriesWhenDropped(g, httpCode, registerCode) ==
    IF ~g.wifiConnected
    THEN [g |-> g, ret |-> FALSE,
          log |-> <<Call("sendHeartbeat"), Ret("sendHeartbeat", FALSE)>>]
    ELSE IF ~g.registryConnected
    THEN LET r == registerWithRegistry(g, registerCode)
         IN  [g |-> r.g, ret |-> FALSE,
              log |-> <<Call("sendHeartbeat")>> \o r.log \o <<Ret("sendHeartbeat", FALSE)>>]
    ELSE
    LET post == <<Call("sendHeartbeat"), HttpPost(HeartbeatUrl(g.registryUrl), httpCode)>>
    IN  IF httpCode = 200
        THEN [g |-> [g EXCEPT !.heartbeatFailures = 0], ret |-> TRUE,
              log |-> post \o <<Ret("sendHeartbeat", TRUE)>>]
        ELSE
        LET g1 == [g EXCEPT !.heartbeatFailures = g.heartbeatFailures + 1]
        IN  IF g1.heartbeatFailures > HeartbeatFailLimit
            THEN LET g2 == [g1 EXCEPT !.registryConnected = FALSE]
                     r == registerWithRegistry(g2, registerCode)
                 IN  [g |-> r.g, ret |-> FALSE,
                      log |-> post \o <<SetFlag("registryConnected", FALSE)>>
                                   \o r.log \o <<Ret("sendHeartbeat", FALSE)>>]
            ELSE [g |-> g1, ret |-> FALSE,
                  log |-> post \o <<Ret("sendHeartbeat", FALSE)>>]

\* sendHeartbeat: POST {handle, status} to <registryUrl>/heartbeat; on the
\* failure that takes heartbeatFailures above the limit, drop the
\* registration and call registerWithRegistry.
sendHeartbeat(g, httpCode, registerCode) ==
    IF ~g.wifiConnected \/ ~g.registryConnected
    THEN [g |-> g, ret |-> FALSE,
          log |-> <<Call("sendHeartbeat"), Ret("sendHeartbeat", FALSE)>>]
    ELSE
    LET post == <<Call("sendHeartbeat"), HttpPost(HeartbeatUrl(g.registryUrl), httpCode)>>
    IN  IF httpCode = 200
        THEN [g |-> [g EXCEPT !.heartbeatFailures = 0], ret |-> TRUE,
              log |-> post \o <<Ret("sendHeartbeat", TRUE)>>]
        ELSE
        LET g1 == [g EXCEPT !.heartbeatFailures = g.heartbeatFailures + 1]
        IN  IF g1.heartbeatFailures > HeartbeatFailLimit
            THEN LET g2 == [g1 EXCEPT !.registryConnected = FALSE]
                     r == registerWithRegistry(g2, registerCode)
                 IN  [g |-> r.g, ret |-> FALSE,
                      log |-> post \o <<SetFlag("registryConnected", FALSE)>>
                                   \o r.log \o <<Ret("sendHeartbeat", FALSE)>>]
            ELSE [g |-> g1, ret |-> FALSE,
                  log |-> post \o <<Ret("sendHeartbeat", FALSE)>>]

-----------------------------------------------------------------------------
(* Peer Directory *)

\* agent[key] | default
Field(agent, key, default) == IF key \in agent.has THEN agent[key] ELSE default

\* Faulty variant of the loop body: the own handle is not skipped.
RECURSIVE DiscoverLoop_KeepsSelf(_, _, _)
DiscoverLoop_KeepsSelf(agents, i, found) ==
    IF i > Len(agents) THEN found
    ELSE IF Len(found) >= MaxAgents THEN found
    ELSE LET handle == Field(agents[i], "handle", "")
         IN  DiscoverLoop_KeepsSelf(agents, i + 1,
                 Append(found, [handle |-> handle,
                                url |-> Field(agents[i], "url", ""),
                                name |-> Field(agents[i], "name", handle),
                                healthy |-> Field(agents[i], "healthy", FALSE)]))

\* Faulty variant of the loop: it looks at the first 10 descriptors of the
\* response, whether stored or skipped.
RECURSIVE DiscoverLoop_FirstTenListed(_, _, _)
DiscoverLoop_FirstTenListed(agents, i, found) ==
    IF i > Len(agents) THEN found
    ELSE IF i > MaxAgents THEN found
    ELSE LET handle == Field(agents[i], "handle", "")
         IN  IF handle = deviceHandle
             THEN DiscoverLoop_FirstTenListed(agents, i + 1, found)
             ELSE DiscoverLoop_FirstTenListed(agents, i + 1,
                      Append(found, [handle |-> handle,
                                     url |-> Field(agents[i], "url", ""),
                                     name |-> Field(agents[i], "name", handle),
                                     healthy |-> Field(agents[i], "healthy", FALSE)]))

\* for (JsonObject agent : agents): stop at 10 stored entries, skip the own
\* handle, store the rest in order.  found is discoveredAgents[0..count).
RECURSIVE DiscoverLoop(_, _, _)
DiscoverLoop(agents, i, found) ==
    IF i > Len(agents) THEN found
    ELSE IF Len(found) >= MaxAgents THEN found
    ELSE LET handle == Field(agents[i], "handle", "")
         IN  IF handle = deviceHandle
             THEN DiscoverLoop(agents, i + 1, found)
             ELSE DiscoverLoop(agents, i + 1,
                      Append(found, [handle |-> handle,
                                     url |-> Field(agents[i], "url", ""),
                                     name |-> Field(agents[i], "name", handle),
                                     healthy |-> Field(agents[i], "healthy", FALSE)]))

\* Faulty variant: the count is reset before the response is looked at.
discoverAgents_ClearsFirst(g, resp) ==
    IF ~g.wifiConnected
    THEN [g |-> g, log |-> <<Call("discoverAgents")>>]
    ELSE LET l == <<Call("discoverAgents"), HttpGet(AgentsUrl(g.registryUrl), resp.code)>>
         IN  IF resp.code = 200 /\ resp.parses
             THEN [g |-> [g EXCEPT !.discoveredAgents = DiscoverLoop(resp.agents, 1, <<>>)],
                   log |-> l]
             ELSE [g |-> [g EXCEPT !.discoveredAgents = <<>>], log |-> l]

\* Faulty variant: the peer refresh does not look at wifiConnected.
discoverAgents_NoWifiGuard(g, resp) ==
    LET l == <<Call("discoverAgents"), HttpGet(AgentsUrl(g.registryUrl), resp.code)>>
    IN  IF resp.code = 200 /\ resp.parses
        THEN [g |-> [g EXCEPT !.discoveredAgents = DiscoverLoop(resp.agents, 1, <<>>)],
              log |-> l]
        ELSE [g |-> g, log |-> l]

\* Faulty variant: a response that lists no agents leaves the snapshot.
discoverAgents_KeepsOnEmpty(g, resp) ==
    IF ~g.wifiConnected
    THEN [g |-> g, log |-> <<Call("discoverAgents")>>]
    ELSE LET l == <<Call("discoverAgents"), HttpGet(AgentsUrl(g.registryUrl), resp.code)>>
         IN  IF resp.code = 200 /\ resp.parses /\ resp.agents # <<>>
             THEN [g |-> [g EXCEPT !.discoveredAgents = DiscoverLoop(resp.agents, 1, <<>>)],
                   log |-> l]
             ELSE [g |-> g, log |-> l]

\* discoverAgents: GET <registryUrl>/agents; a 200 whose body parses
\* replaces the snapshot, anything else leaves it.  resp.agents is the
\* document's "agents" array (empty when the key is absent).
discoverAgents(g, resp) ==
    IF ~g.wifiConnected
    THEN [g |-> g, log |-> <<Call("discoverAgents")>>]
    ELSE LET l == <<Call("discoverAgents"), HttpGet(AgentsUrl(g.registryUrl), resp.code)>>
         IN  IF resp.code = 200 /\ resp.parses
             THEN [g |-> [g EXCEPT !.discoveredAgents = DiscoverLoop(resp.agents, 1, <<>>)],
                   log |-> l]
             ELSE [g |-> g, log |-> l]

-----------------------------------------------------------------------------
(* Tunnel Session *)

HandlerResult(name) == [handler |-> name]

\* Faulty variant: the routes that act on the device answer GET only.
processTunnelRequest_GetOnly(method, path, body) ==
    IF path = <<"/.well-known/agent.json">> THEN HandlerResult("getAgentCard")
    ELSE IF path = <<"/api/sensors">> THEN HandlerResult("handleSensorsRead")
    ELSE IF path = <<"/api/buttons">> THEN HandlerResult("handleButtonStatus")
    ELSE IF path = <<"/api/battery">> THEN HandlerResult("handleBatteryStatus")
    ELSE IF method = "GET" /\ Len(path) > 0 /\ path[1] = "/api/buzzer"
    THEN LET qPos == IndexOf(path, "?")
             query == SubstringFrom(path, qPos + 1)
             freqPos == IndexOf(query, "freq=")
             durPos == IndexOf(query, "duration=")
         IN  [handler |-> "handleBuzzerTone",
              freq |-> IF qPos > 0 /\ freqPos >= 0
                       THEN ToInt(SubstringFrom(query, freqPos + 1)) ELSE 1000,
              duration |-> IF qPos > 0 /\ durPos >= 0
                           THEN ToInt(SubstringFrom(query, durPos + 1)) ELSE 100]
    ELSE IF method = "GET" /\ Len(path) > 0 /\ path[1] = "/api/display"
            /\ IndexOf(path, "text=") > 0
    THEN [handler |-> "handleDisplayShow",
          text |-> [i \in 1..(Len(path) - IndexOf(path, "text=") - 1) |->
                       LET t == path[i + IndexOf(path, "text=") + 1]
                       IN  IF t = "%20" THEN " " ELSE t]]
    ELSE [error |-> "Not found", path |-> path]

\* processTunnelRequest: the route is chosen from the path alone.
processTunnelRequest(method, path, body) ==
    IF path = <<"/.well-known/agent.json">> THEN HandlerResult("getAgentCard")
    ELSE IF path = <<"/api/sensors">> THEN HandlerResult("handleSensorsRead")
    ELSE IF path = <<"/api/buttons">> THEN HandlerResult("handleButtonStatus")
    ELSE IF path = <<"/api/battery">> THEN HandlerResult("handleBatteryStatus")
    ELSE IF Len(path) > 0 /\ path[1] = "/api/buzzer"
    THEN LET qPos == IndexOf(path, "?")
             query == SubstringFrom(path, qPos + 1)
             freqPos == IndexOf(query, "freq=")
             durPos == IndexOf(query, "duration=")
         IN  [handler |-> "handleBuzzerTone",
              freq |-> IF qPos > 0 /\ freqPos >= 0
                       THEN ToInt(SubstringFrom(query, freqPos + 1)) ELSE 1000,
              duration |-> IF qPos > 0 /\ durPos >= 0
                           THEN ToInt(SubstringFrom(query, durPos + 1)) ELSE 100]
    ELSE IF Len(path) > 0 /\ path[1] = "/api/display" /\ IndexOf(path, "text=") > 0
    THEN [handler |-> "handleDisplayShow",
          text |-> [i \in 1..(Len(path) - IndexOf(path, "text=") - 1) |->
                       LET t == path[i + IndexOf(path, "text=") + 1]
                       IN  IF t = "%20" THEN " " ELSE t]]
    ELSE [error |-> "Not found", path |-> path]

\* What the handler behind a result writes besides the display and the
\* speaker: handleDisplayShow sets showingMessage (and messageDisplayTime),
\* the other handlers write no global.
HandlerWrites(response) ==
    IF "handler" \in DOMAIN response /\ response.handler = "handleDisplayShow"
    THEN <<SetFlag("showingMessage", TRUE)>>
    ELSE <<>>

\* Faulty variant: a relayed request counts as a sign of life and clears the
\* heartbeat failure counter.
OnWsText_RequestClearsFailures(g, msg) ==
    IF ~msg.parses
    THEN [g |-> g, log |-> <<Call("webSocketEvent")>>]
    ELSE LET msgType == Field(msg.doc, "type", "")
         IN  IF msgType = "request"
             THEN LET reqId == Field(msg.doc, "id", "")
                      method == Field(msg.doc, "method", "GET")
                      path == Field(msg.doc, "path", <<"/">>)
                      body == Field(msg.doc, "body", "")
                      response == processTunnelRequest(method, path, body)
                  IN  [g |-> [g EXCEPT !.heartbeatFailures = 0],
                       log |-> <<Call("webSocketEvent"), Call("processTunnelRequest")>>
                               \o HandlerWrites(response)
                               \o <<WsSend([type |-> "response", id |-> reqId,
                                         status |-> 200,
                                         headers |-> [ContentType |-> "application/json"],
                                         body |-> response])>>]
             ELSE [g |-> g, log |-> <<Call("webSocketEvent")>>]

\* Faulty variant: an unmatched path is answered with status 404.
OnWsText_NotFound404(g, msg) ==
    IF ~msg.parses
    THEN [g |-> g, log |-> <<Call("webSocketEvent")>>]
    ELSE LET msgType == Field(msg.doc, "type", "")
         IN  IF msgType = "request"
             THEN LET reqId == Field(msg.doc, "id", "")
                      method == Field(msg.doc, "method", "GET")
                      path == Field(msg.doc, "path", <<"/">>)
                      body == Field(msg.doc, "body", "")
                      response == processTunnelRequest(method, path, body)
                  IN  [g |-> g,
                       log |-> <<Call("webSocketEvent"), Call("processTunnelRequest")>>
                               \o HandlerWrites(response)
                               \o <<WsSend([type |-> "response", id |-> reqId,
                                         status |-> IF "error" \in DOMAIN response
                                                    THEN 404 ELSE 200,
                                         headers |-> [ContentType |-> "application/json"],
                                         body |-> response])>>]
             ELSE [g |-> g, log |-> <<Call("webSocketEvent")>>]

\* Faulty variant: a payload that does not parse closes the session.
OnWsText_ClosesOnGarbage(g, msg) ==
    IF ~msg.parses
    THEN [g |-> [g EXCEPT !.tunnelConnected = FALSE], log |-> <<Call("webSocketEvent")>>]
    ELSE LET msgType == Field(msg.doc, "type", "")
         IN  IF msgType = "request"
             THEN LET reqId == Field(msg.doc, "id", "")
                      method == Field(msg.doc, "method", "GET")
                      path == Field(msg.doc, "path", <<"/">>)
                      body == Field(msg.doc, "body", "")
                      response == processTunnelRequest(method, path, body)
                  IN  [g |-> g,
                       log |-> <<Call("webSocketEvent"), Call("processTunnelRequest")>>
                               \o HandlerWrites(response)
                               \o <<WsSend([type |-> "response", id |-> reqId,
                                         status |-> 200,
                                         headers |-> [ContentType |-> "application/json"],
                                         body |-> response])>>]
             ELSE [g |-> g, log |-> <<Call("webSocketEvent")>>]

\* Faulty variant: the registry's "connected" message marks the tunnel
\* connected.
OnWsText_ConnectedSetsFlag(g, msg) ==
    IF ~msg.parses
    THEN [g |-> g, log |-> <<Call("webSocketEvent")>>]
    ELSE LET msgType == Field(msg.doc, "type", "")
         IN  IF msgType = "request"
             THEN LET reqId == Field(msg.doc, "id", "")
                      method == Field(msg.doc, "method", "GET")
                      path == Field(msg.doc, "path", <<"/">>)
                      body == Field(msg.doc, "body", "")
                      response == processTunnelRequest(method, path, body)
                  IN  [g |-> g,
                       log |-> <<Call("webSocketEvent"), Call("processTunnelRequest")>>
                               \o HandlerWrites(response)
                               \o <<WsSend([type |-> "response", id |-> reqId,
                                         status |-> 200,
                                         headers |-> [ContentType |-> "application/json"],
                                         body |-> response])>>]
             ELSE IF msgType = "connected"
                  THEN [g |-> [g EXCEPT !.tunnelConnected = TRUE],
                        log |-> <<Call("webSocketEvent")>>]
                  ELSE [g |-> g, log |-> <<Call("webSocketEvent")>>]

\* The WStype_TEXT case of webSocketEvent.  msg.parses is the outcome of
\* deserializeJson, msg.doc the document.
OnWsText(g, msg) ==
    IF ~msg.parses
    THEN [g |-> g, log |-> <<Call("webSocketEvent")>>]
    ELSE LET msgType == Field(msg.doc, "type", "")
         IN  IF msgType = "request"
             THEN LET reqId == Field(msg.doc, "id", "")
                      method == Field(msg.doc, "method", "GET")
                      path == Field(msg.doc, "path", <<"/">>)
                      body == Field(msg.doc, "body", "")
                      response == processTunnelRequest(method, path, body)
                  IN  [g |-> g,
                       log |-> <<Call("webSocketEvent"), Call("processTunnelRequest")>>
                               \o HandlerWrites(response)
                               \o <<WsSend([type |-> "response", id |-> reqId,
                                         status |-> 200,
                                         headers |-> [ContentType |-> "application/json"],
                                         body |-> response])>>]
             ELSE [g |-> g, log |-> <<Call("webSocketEvent")>>]

\* Faulty variant: WStype_DISCONNECTED leaves tunnelConnected as it is.
OnWsEvent_KeepsFlagOnDisconnect(g, type) ==
    [g |-> CASE type = "WStype_CONNECTED" -> [g EXCEPT !.tunnelConnected = TRUE]
             [] type = "WStype_ERROR" -> [g EXCEPT !.tunnelConnected = FALSE]
             [] OTHER -> g,
     log |-> <<Call("webSocketEvent")>>]

\* webSocketEvent for the transport events
OnWsEvent(g, type) ==
    [g |-> CASE type = "WStype_DISCONNECTED" -> [g EXCEPT !.tunnelConnected = FALSE]
             [] type = "WStype_CONNECTED" -> [g EXCEPT !.tunnelConnected = TRUE]
             [] type = "WStype_ERROR" -> [g EXCEPT !.tunnelConnected = FALSE]
             [] OTHER -> g,
     log |-> <<Call("webSocketEvent")>>]

\* connectTunnel: host and port from registryUrl, then webSocket.begin,
\* which drops whatever link the client had and starts connecting.
connectTunnel(g) ==
    IF ~g.wifiConnected \/ Len(g.registryUrl) = 0
    THEN [g |-> g, log |-> <<Call("connectTunnel")>>]
    ELSE LET url == Without(Without(g.registryUrl, "http://"), "https://")
             colonPos == IndexOf(url, ":")
             host == SubstringTo(url, IF colonPos > 0 THEN colonPos ELSE Len(url))
             port == IF colonPos > 0 THEN ToInt(SubstringFrom(url, colonPos + 1)) ELSE 80
         IN  [g |-> [g EXCEPT !.wsState = "connecting"],
              log |-> <<Call("connectTunnel"),
                        WsBegin(host, port, <<"/tunnel?handle=", deviceHandle>>)>>]

\* Faulty variant: the tunnel heartbeat is sent only by a registered device.
sendTunnelHeartbeat_OnlyRegistered(g) ==
    IF ~g.tunnelConnected \/ ~g.registryConnected
    THEN [g |-> g, log |-> <<Call("sendTunnelHeartbeat")>>]
    ELSE [g |-> g,
          log |-> <<Call("sendTunnelHeartbeat"),
                    WsSend([type |-> "heartbeat", handle |-> deviceHandle])>>]

\* sendTunnelHeartbeat
sendTunnelHeartbeat(g) ==
    IF ~g.tunnelConnected
    THEN [g |-> g, log |-> <<Call("sendTunnelHeartbeat")>>]
    ELSE [g |-> g,
          log |-> <<Call("sendTunnelHeartbeat"),
                    WsSend([type |-> "heartbeat", handle |-> deviceHandle])>>]

-----------------------------------------------------------------------------
(* The environment's answers *)

SavedUrl == <<"http://", "registry.lan", ":", "8080">>
PublicUrl == <<"https://", "registry.example.org">>

Gateways == { <<192, 168, 1, 1>>, <<10, 0, 0, 254>> }

NoMdns == [dedicated |-> <<>>, http |-> <<>>]
MdnsAnswers ==
    { NoMdns,
      [dedicated |-> <<[host |-> <<"everything">>, ip |-> <<192, 168, 1, 50>>, port |-> 3000]>>,
       http |-> <<>>],
      [dedicated |-> <<>>,
       http |-> <<[host |-> <<"printer">>, ip |-> <<192, 168, 1, 9>>, port |-> 80]>>],
      [dedicated |-> <<>>,
       http |-> <<[host |-> <<"printer">>, ip |-> <<192, 168, 1, 9>>, port |-> 80],
                  [host |-> <<"my-", "nanda", "-hub">>, ip |-> <<192, 168, 1, 20>>, port |-> 8080],
                  [host |-> <<"registry", "-2">>, ip |-> <<192, 168, 1, 21>>, port |-> 3000]>>] }

HealthCodes == {200, 404, -1}

NumCandidates == Len(Candidates(<<0, 0, 0, 0>>))

AllTimeout == [i \in 1..NumCandidates |-> -1]

\* Sweeps in which at most MaxResponding candidates answer (200 or 404) and
\* the others time out.
ProbeAnswers ==
    UNION { { [i \in 1..NumCandidates |-> IF i \in S THEN c[i] ELSE -1] : c \in [S -> {200, 404}] }
            : S \in {T \in SUBSET (1..NumCandidates) : Cardinality(T) <= MaxResponding} }

PubFailed == [code |-> -1, parses |-> FALSE, registries |-> <<>>]
PubAnswers ==
    { PubFailed,
      [code |-> 404, parses |-> TRUE, registries |-> <<[url |-> PublicUrl]>>],
      [code |-> 200, parses |-> FALSE, registries |-> <<>>],
      [code |-> 200, parses |-> TRUE, registries |-> <<>>],
      [code |-> 200, parses |-> TRUE, registries |-> <<[url |-> PublicUrl]>>],
      [code |-> 200, parses |-> TRUE,
       registries |-> <<[url |-> <<>>], [url |-> PublicUrl]>>] }

LocateInputs ==
    [saved : {<<>>, SavedUrl}, mdns : MdnsAnswers, mdnsCode : HealthCodes,
     gateway : Gateways, probe : ProbeAnswers, pub : PubAnswers]

SetupInputs ==
    [saved : {<<>>, SavedUrl}, mdns : {NoMdns}, mdnsCode : {-1},
     gateway : {<<192, 168, 1, 1>>},
     probe : {AllTimeout, [AllTimeout EXCEPT ![3] = 200]}, pub : {PubFailed}]

RegisterCodes == {200, 201, 409, -1}
HeartbeatCodes == {200, 404, -1}

AllKeys == {"handle", "url", "name", "healthy"}

\* The i-th descriptor of a response: some lack the name, some the handle.
Peer(i) ==
    [has |-> IF i % 5 = 0 THEN AllKeys \ {"handle"}
             ELSE IF i % 3 = 0 THEN AllKeys \ {"name"} ELSE AllKeys,
     handle |-> "agent-" \o ToString(i),
     url |-> "http://agent-" \o ToString(i),
     name |-> "Agent " \o ToString(i),
     healthy |-> (i % 2 = 0)]

SelfDescriptor ==
    [has |-> AllKeys, handle |-> deviceHandle, url |-> "http://" \o deviceIP,
     name |-> "M5Stick", healthy |-> TRUE]

AgentList(n, selfAt) == [i \in 1..n |-> IF i \in selfAt THEN SelfDescriptor ELSE Peer(i)]

\* The own handle listed nowhere, once, or twice, at any positions
SelfPlacements(n) == {{}} \cup { {i, j} : i \in 1..n, j \in 1..n }

AgentLists(maxN) ==
    UNION { { AgentList(n, S) : S \in SelfPlacements(n) } : n \in 0..maxN }

Responses(maxN) ==
    { [code |-> 200, parses |-> TRUE, agents |-> l] : l \in AgentLists(maxN) }
    \cup { [code |-> 200, parses |-> FALSE, agents |-> <<>>],
           [code |-> 500, parses |-> FALSE, agents |-> <<>>],
           [code |-> -1, parses |-> FALSE, agents |-> <<>>] }

PeerResponses == Responses(MaxListed)
LoopResponses == Responses(LoopListed)

MsgKeys == {"type", "id", "method", "path", "body"}
Request(id, method, path) ==
    [parses |-> TRUE,
     doc |-> [has |-> MsgKeys, type |-> "request", id |-> id, method |-> method,
              path |-> path, body |-> ""]]
Plain(type) == [parses |-> TRUE, doc |-> [has |-> {"type"}, type |-> type]]

WsMessages ==
    { [parses |-> FALSE, doc |-> [has |-> {}]],
      [parses |-> TRUE, doc |-> [has |-> {}]],
      Plain("connected"), Plain("heartbeat_ack"), Plain("status"), Plain("request"),
      Request("r1", "GET", <<"/api/battery">>),
      Request("r2", "POST", <<"/api/buzzer", "?", "freq=", "440", "&", "duration=", "50">>),
      Request("r3", "GET", <<"/api/display", "?", "text=", "hi", "%20", "there">>),
      Request("r4", "GET", <<"/api/unknown">>) }

-----------------------------------------------------------------------------
(* State *)

Globals ==
    [wifiConnected |-> wifiConnected, registryUrl |-> registryUrl,
     registryConnected |-> registryConnected, heartbeatFailures |-> heartbeatFailures,
     discoveredAgents |-> discoveredAgents, tunnelConnected |-> tunnelConnected,
     wsState |-> wsState]

\* The statics of loop() start at 0 and millis() at 0: the differences
\* millis() - lastHeartbeatTime and millis() - lastTunnelCheck are 0.  The
\* WebSocketsClient has its own clock, sinceWs: the time since its last
\* connection attempt while it is connecting, and since its last ping while
\* it is connected; missed is the pongs missed in a row.  The rest is history, of which a
\* run records one track:
\*   "attempts"   who made the last connection attempt and the one before,
\*                and the time since the last;
\*   "drop"       after a disconnect forced by missed pongs, the time since
\*                it and the reconnects of loop() since it;
\*   "heartbeat"  the time since the last heartbeat message on the tunnel,
\*                or since the link came up.
InitialClock ==
    [sinceHeartbeat |-> 0, sinceTunnelCheck |-> 0,
     sinceWs |-> 0, missed |-> 0,
     track |-> "none",
     attemptBy |-> "none", prevAttemptBy |-> "none", sinceAttempt |-> 0,
     dropped |-> FALSE, sinceDrop |-> 0, reconnectsSinceDrop |-> 0,
     sinceTunnelHb |-> 0]

\* The initializers of the globals, main.cpp:92-122
InitialGlobals ==
    [wifiConnected |-> FALSE, registryUrl |-> <<>>, registryConnected |-> FALSE,
     heartbeatFailures |-> 0, discoveredAgents |-> <<>>, tunnelConnected |-> FALSE,
     wsState |-> "idle"]

\* History: the heartbeat requests that failed in a row, over the events l.
RECURSIVE StreakAfter(_, _)
StreakAfter(streak, l) ==
    IF Len(l) = 0 THEN streak
    ELSE LET e == Head(l)
             next ==
                 IF e.k = "http" /\ e.method = "POST"
                 THEN IF Last(e.url) = "/heartbeat"
                      THEN IF e.code = 200 THEN 0 ELSE streak + 1
                      ELSE IF e.code \in {200, 201} THEN 0 ELSE streak
                 ELSE streak
         IN  StreakAfter(next, Tail(l))

Commit(op, r) ==
    /\ wifiConnected' = r.g.wifiConnected
    /\ registryUrl' = r.g.registryUrl
    /\ registryConnected' = r.g.registryConnected
    /\ heartbeatFailures' = r.g.heartbeatFailures
    /\ discoveredAgents' = r.g.discoveredAgents
    /\ tunnelConnected' = r.g.tunnelConnected
    /\ wsState' = r.g.wsState
    /\ lastOp' = op
    /\ log' = r.log
    /\ failStreak' = StreakAfter(failStreak, r.log)

\* r, then f applied to the globals r leaves
Then(r, next) == [g |-> next.g, log |-> r.log \o next.log]

-----------------------------------------------------------------------------
(* setup() *)

\* Faulty variant: the tunnel is opened whether or not registration succeeded.
setup_TunnelsAnyway(wifiOk, in, registerCode, resp) ==
    LET g0 == [InitialGlobals EXCEPT !.wifiConnected = wifiOk]
    IN  IF ~g0.wifiConnected
        THEN [g |-> g0, log |-> <<>>]
        ELSE LET loc == autoDetectRegistry(in)
                 g1 == [g0 EXCEPT !.registryUrl = loc.url]
                 reg == registerWithRegistry(g1, registerCode)
                 located == [g |-> g1, log |-> <<Call("autoDetectRegistry")>> \o loc.log]
                 tun == connectTunnel(reg.g)
             IN  IF reg.ret
                 THEN Then(Then(Then(located, reg), tun), discoverAgents(tun.g, resp))
                 ELSE Then(Then(located, reg), tun)

\* connectWiFi, then for a connected device: autoDetectRegistry,
\* registerWithRegistry and, when that succeeds, connectTunnel and
\* discoverAgents.
setup(wifiOk, in, registerCode, resp) ==
    LET g0 == [InitialGlobals EXCEPT !.wifiConnected = wifiOk]
    IN  IF ~g0.wifiConnected
        THEN [g |-> g0, log |-> <<>>]
        ELSE LET loc == autoDetectRegistry(in)
                 g1 == [g0 EXCEPT !.registryUrl = loc.url]
                 reg == registerWithRegistry(g1, registerCode)
                 located == [g |-> g1, log |-> <<Call("autoDetectRegistry")>> \o loc.log]
             IN  IF reg.ret
                 THEN LET tun == connectTunnel(reg.g)
                          disc == discoverAgents(tun.g, resp)
                      IN  Then(Then(Then(located, reg), tun), disc)
                 ELSE Then(located, reg)

\* setup() with the environment's answers drawn from the given sets
SetupWith(inputs, registerCodes, responses) ==
    /\ pc = "boot"
    /\ \E wifiOk \in BOOLEAN, in \in inputs, registerCode \in registerCodes,
          resp \in responses :
          Commit("setup", setup(wifiOk, in, registerCode, resp))
    /\ pc' = "loop"
    /\ UNCHANGED <<input, currentScreen>>

Setup == SetupWith(SetupInputs, RegisterCodes, LoopResponses)

-----------------------------------------------------------------------------
(* loop() *)

NextScreen(screen) ==
    MenuOrder[((IndexOf(MenuOrder, screen) + 1) % MENU_COUNT) + 1]

\* webSocket.loop(): the client reports a transport event
WsTransportEvent ==
    /\ pc = "loop"
    /\ \E type \in {"WStype_CONNECTED", "WStype_DISCONNECTED", "WStype_ERROR",
                    "WStype_PING", "WStype_PONG"} :
          /\ CASE type = "WStype_CONNECTED" -> wsState = "connecting"
               [] type = "WStype_DISCONNECTED" -> wsState \in {"connecting", "connected"}
               [] type = "WStype_ERROR" -> wsState \in {"connecting", "connected"}
               [] OTHER -> wsState = "connected"
          /\ LET r == OnWsEvent(Globals, type)
                 link == CASE type = "WStype_CONNECTED" -> "connected"
                           [] type = "WStype_DISCONNECTED" -> "connecting"
                           [] OTHER -> wsState
             IN  Commit(type, [g |-> [r.g EXCEPT !.wsState = link], log |-> r.log])
    /\ UNCHANGED <<pc, input, currentScreen>>

\* webSocket.loop(): the client delivers a text frame
WsTextEvent ==
    /\ pc = "loop"
    /\ wsState = "connected"
    /\ \E msg \in WsMessages : Commit("WStype_TEXT", OnWsText(Globals, msg))
    /\ UNCHANGED <<pc, input, currentScreen>>

\* if (M5.BtnB.wasPressed())
ButtonB ==
    /\ pc = "loop"
    /\ currentScreen' = NextScreen(currentScreen)
    /\ Commit("BtnB", [g |-> Globals, log |-> <<>>])
    /\ UNCHANGED <<pc, input>>

\* The switch of if (M5.BtnA.wasPressed())
OnButtonA(g, screen, registerCode, heartbeatCode, resp) ==
    IF screen = MENU_DISCOVERY
    THEN IF ~g.registryConnected
         THEN LET reg == registerWithRegistry(g, registerCode)
              IN  Then(reg, discoverAgents(reg.g, resp))
         ELSE discoverAgents(g, resp)
    ELSE IF screen = MENU_HOME
    THEN LET hb == sendHeartbeat(g, heartbeatCode, registerCode)
         IN  [g |-> hb.g, log |-> hb.log]
    ELSE [g |-> g, log |-> <<>>]

NoResponse == [code |-> -1, parses |-> FALSE, agents |-> <<>>]

\* if (M5.BtnA.wasPressed()) with the answers drawn from the given sets
ButtonAWith(registerCodes, heartbeatCodes, responses) ==
    /\ pc = "loop"
    /\ \E registerCode \in IF currentScreen = MENU_DISCOVERY /\ registryConnected
                            THEN {-1} ELSE registerCodes,
          heartbeatCode \in IF currentScreen = MENU_HOME THEN heartbeatCodes ELSE {-1},
          resp \in IF currentScreen = MENU_DISCOVERY THEN responses ELSE {NoResponse} :
          Commit("BtnA", OnButtonA(Globals, currentScreen, registerCode, heartbeatCode, resp))
    /\ UNCHANGED <<pc, input, currentScreen>>

ButtonA == ButtonAWith(RegisterCodes, HeartbeatCodes, LoopResponses)

\* Faulty variant: the tunnel heartbeat is sent only after a registry
\* heartbeat that succeeded.
HeartbeatTimerWith_OnlyOnSuccess(heartbeatCodes, registerCodes) ==
    /\ pc = "loop"
    /\ wifiConnected
    /\ \E heartbeatCode \in heartbeatCodes, registerCode \in registerCodes :
          LET hb == sendHeartbeat(Globals, heartbeatCode, registerCode)
          IN  Commit("heartbeatTimer",
                     IF hb.ret
                     THEN Then([g |-> hb.g, log |-> hb.log], sendTunnelHeartbeat(hb.g))
                     ELSE [g |-> hb.g, log |-> hb.log])
    /\ UNCHANGED <<pc, input, currentScreen>>

\* Periodic heartbeat to registry, with the answers drawn from the given sets
HeartbeatTimerWith(heartbeatCodes, registerCodes) ==
    /\ pc = "loop"
    /\ wifiConnected
    /\ \E heartbeatCode \in heartbeatCodes, registerCode \in registerCodes :
          LET hb == sendHeartbeat(Globals, heartbeatCode, registerCode)
          IN  Commit("heartbeatTimer",
                     Then([g |-> hb.g, log |-> hb.log], sendTunnelHeartbeat(hb.g)))
    /\ UNCHANGED <<pc, input, currentScreen>>

HeartbeatTimer == HeartbeatTimerWith(HeartbeatCodes, RegisterCodes)

\* Reconnect tunnel if disconnected
TunnelTimer ==
    /\ pc = "loop"
    /\ wifiConnected /\ registryConnected /\ ~tunnelConnected
    /\ Commit("tunnelTimer", connectTunnel(Globals))
    /\ UNCHANGED <<pc, input, currentScreen>>

\* Periodic agent discovery
DiscoveryTimer ==
    /\ pc = "loop"
    /\ wifiConnected
    /\ \E resp \in LoopResponses : Commit("discoveryTimer", discoverAgents(Globals, resp))
    /\ UNCHANGED <<pc, input, currentScreen>>

InitDevice ==
    /\ pc = "boot"
    /\ input = <<>>
    /\ wifiConnected = InitialGlobals.wifiConnected
    /\ registryUrl = InitialGlobals.registryUrl
    /\ registryConnected = InitialGlobals.registryConnected
    /\ heartbeatFailures = InitialGlobals.heartbeatFailures
    /\ discoveredAgents = InitialGlobals.discoveredAgents
    /\ tunnelConnected = InitialGlobals.tunnelConnected
    /\ wsState = InitialGlobals.wsState
    /\ currentScreen = MENU_HOME
    /\ lastOp = "none"
    /\ log = <<>>
    /\ failStreak = 0

Init == InitDevice /\ clock = InitialClock

\* The device with its timers firing at any time: the clock stands still.
Next ==
    \/ Setup /\ UNCHANGED clock
    \/ WsTransportEvent /\ UNCHANGED clock
    \/ WsTextEvent /\ UNCHANGED clock
    \/ ButtonB /\ UNCHANGED clock
    \/ ButtonA /\ UNCHANGED clock
    \/ HeartbeatTimer /\ UNCHANGED clock
    \/ TunnelTimer /\ UNCHANGED clock
    \/ DiscoveryTimer /\ UNCHANGED clock

Spec == Init /\ [][Next]_vars

-----------------------------------------------------------------------------
(* The locator on its own: every combination of answers *)

InitLocate ==
    /\ pc = "locate"
    /\ input \in LocateInputs
    /\ wifiConnected = TRUE
    /\ registryUrl = <<>>
    /\ registryConnected = FALSE
    /\ heartbeatFailures = 0
    /\ discoveredAgents = <<>>
    /\ tunnelConnected = FALSE
    /\ wsState = "idle"
    /\ currentScreen = MENU_HOME
    /\ lastOp = "none"
    /\ log = <<>>
    /\ failStreak = 0
    /\ clock = InitialClock

Locate ==
    /\ pc = "locate"
    /\ LET loc == autoDetectRegistry(input)
       IN  Commit("autoDetectRegistry",
                  [g |-> [Globals EXCEPT !.registryUrl = loc.url], log |-> loc.log])
    /\ pc' = "located"
    /\ UNCHANGED <<input, currentScreen>>

NextLocate == Locate /\ UNCHANGED clock

SpecLocate == InitLocate /\ [][NextLocate]_vars

-----------------------------------------------------------------------------
(* The peer directory on its own: responses of every shape *)

InitPeers ==
    /\ pc = "loop"
    /\ input = <<>>
    /\ wifiConnected = TRUE
    /\ registryUrl = SavedUrl
    /\ registryConnected = TRUE
    /\ heartbeatFailures = 0
    /\ discoveredAgents = <<>>
    /\ tunnelConnected = FALSE
    /\ wsState = "idle"
    /\ currentScreen = MENU_HOME
    /\ lastOp = "none"
    /\ log = <<>>
    /\ failStreak = 0
    /\ clock = InitialClock

PeerRefresh ==
    /\ pc = "loop"
    /\ \E resp \in PeerResponses :
          /\ input' = resp
          /\ Commit("discoverAgents", discoverAgents(Globals, resp))
    /\ UNCHANGED <<pc, currentScreen>>

NextPeers == PeerRefresh /\ UNCHANGED clock

SpecPeers == InitPeers /\ [][NextPeers]_vars

-----------------------------------------------------------------------------
(* Reading the events of a handler *)

HasEvent(l, e) == \E i \in 1..Len(l) : l[i] = e
Called(l, f) == CountCalls(l, f) > 0
IsPostTo(e, resource) == e.k = "http" /\ e.method = "POST" /\ Last(e.url) = resource
PostsTo(l, resource) == {i \in 1..Len(l) : IsPostTo(l[i], resource)}
HttpEvents(l) == {i \in 1..Len(l) : l[i].k = "http"}
HeartbeatFailed(l) == \E i \in PostsTo(l, "/heartbeat") : l[i].code # 200
HeartbeatSucceeded(l) == \E i \in PostsTo(l, "/heartbeat") : l[i].code = 200
RegisterSucceeded(l) == \E i \in PostsTo(l, "/agents") : l[i].code \in {200, 201}
Position(l, e) == CHOOSE i \in 1..Len(l) : l[i] = e
Dropped == SetFlag("registryConnected", FALSE)

-----------------------------------------------------------------------------
(* Registry Locator: claims *)

Located == pc = "located"

ProbeHits(in) == {i \in 1..NumCandidates : in.probe[i] = 200}
FirstHit(in) == CHOOSE i \in ProbeHits(in) : \A j \in ProbeHits(in) : i <= j
DiscoveryFound(in) ==
    \/ in.mdns.dedicated # <<>>
    \/ \E i \in 1..Len(in.mdns.http) :
          \E t \in 1..Len(in.mdns.http[i].host) :
             in.mdns.http[i].host[t] \in {"nanda", "registry"}
DiscoveredUrl(in) == discoverRegistryMDNS(in.mdns).ret
PublicListOk(in) ==
    /\ in.pub.code = 200
    /\ in.pub.parses
    /\ in.pub.registries # <<>>
    /\ in.pub.registries[1].url # <<>>
GatewayOnPort3000(in) == <<"http://", IpToString(in.gateway), ":", "3000">>

\* The strategy that wins, given what counts as a successful discovery
Winner(in, discoveryOk) ==
    IF in.saved # <<>> THEN "saved"
    ELSE IF discoveryOk THEN "discovery"
    ELSE IF ProbeHits(in) # {} THEN "probe"
    ELSE IF PublicListOk(in) THEN "public"
    ELSE "fallback"

ExpectedEndpoint(in, discoveryOk) ==
    CASE Winner(in, discoveryOk) = "saved" -> in.saved
      [] Winner(in, discoveryOk) = "discovery" -> DiscoveredUrl(in)
      [] Winner(in, discoveryOk) = "probe" -> Candidates(in.gateway)[FirstHit(in)]
      [] Winner(in, discoveryOk) = "public" -> in.pub.registries[1].url
      [] OTHER -> GatewayOnPort3000(in)

\* The winning attempt is the last request made, and the only one answered 200
NothingAfterWinner(in, discoveryOk, l) ==
    CASE Winner(in, discoveryOk) = "saved" -> l = <<>>
      [] Winner(in, discoveryOk) = "discovery" ->
            /\ l # <<>>
            /\ Last(l) = HttpGet(HealthUrl(DiscoveredUrl(in)), 200)
            /\ \A i \in HttpEvents(l) : l[i].code = 200 => i = Len(l)
      [] Winner(in, discoveryOk) = "probe" ->
            /\ l # <<>>
            /\ Last(l) = HttpGet(HealthUrl(Candidates(in.gateway)[FirstHit(in)]), 200)
            /\ \A i \in HttpEvents(l) : l[i].code = 200 => i = Len(l)
      [] Winner(in, discoveryOk) = "public" ->
            /\ l # <<>>
            /\ Last(l) = HttpGet(PUBLIC_REGISTRY_LIST, 200)
            /\ \A i \in HttpEvents(l) : l[i].code = 200 => i = Len(l)
      [] OTHER -> TRUE

\* C1: when a persisted endpoint exists, locate() sets the endpoint to
\* exactly that value and makes no network call at all (no mDNS query, no
\* health probe, no list fetch).
C1_SavedEndpointNoNetwork ==
    (Located /\ input.saved # <<>>) =>
        /\ registryUrl = input.saved
        /\ log = <<>>

C1_Witness ==
    /\ Located
    /\ input.saved = SavedUrl
    /\ DiscoveryFound(input) /\ input.mdnsCode = 200
    /\ ProbeHits(input) # {}
    /\ PublicListOk(input)
    /\ registryUrl = SavedUrl
    /\ log = <<>>

EverythingFails(in) ==
    /\ in.saved = <<>>
    /\ ~DiscoveryFound(in) \/ in.mdnsCode # 200
    /\ ProbeHits(in) = {}
    /\ ~PublicListOk(in)

\* C2: for every combination of outcomes locate() ends with a non-empty
\* endpoint, and with everything failing the endpoint is the gateway
\* address on port 3000.
C2_AlwaysSomeEndpoint ==
    Located =>
        /\ registryUrl # <<>>
        /\ EverythingFails(input) => registryUrl = GatewayOnPort3000(input)

C2_Witness ==
    /\ Located
    /\ EverythingFails(input)
    /\ DiscoveryFound(input)
    /\ input.pub.code = 200 /\ input.pub.parses /\ input.pub.registries # <<>>
    /\ registryUrl = <<"http://", "10.0.0.254", ":", "3000">>
    /\ Len(log) = NumCandidates + 3

\* C3 as claimed: the endpoint is the result of the first succeeding
\* attempt in the order persisted value, service discovery, probe candidates
\* in list order, remote list, gateway fallback, a service discovery that
\* yields a record counting as a success; nothing is attempted after it.
C3_Original_DiscoveryWinsWhenFound ==
    Located =>
        /\ registryUrl = ExpectedEndpoint(input, DiscoveryFound(input))
        /\ NothingAfterWinner(input, DiscoveryFound(input), log)

\* C3 (amended): the same, with service discovery succeeding only when the
\* discovered address also answers its health check with 200.
C3_FirstVerifiedSuccessWins ==
    Located =>
        /\ registryUrl = ExpectedEndpoint(input, DiscoveryFound(input) /\ input.mdnsCode = 200)
        /\ NothingAfterWinner(input, DiscoveryFound(input) /\ input.mdnsCode = 200, log)

C3_Witness ==
    /\ Located
    /\ input.saved = <<>>
    /\ DiscoveryFound(input) /\ input.mdnsCode = 404
    /\ Cardinality(ProbeHits(input)) = 2
    /\ PublicListOk(input)
    /\ FirstHit(input) = 4
    /\ registryUrl = Candidates(input.gateway)[4]
    /\ Last(log) = HttpGet(HealthUrl(registryUrl), 200)

-----------------------------------------------------------------------------
(* Registration Client: claims *)

\* The registration state register() finds: the state before the handler,
\* or, inside heartbeat(), that state with the failure counted and the
\* registration dropped.
AtRegisterCall(l) ==
    IF HasEvent(l, Dropped)
    THEN [registryConnected |-> FALSE, heartbeatFailures |-> heartbeatFailures + 1]
    ELSE [registryConnected |-> registryConnected, heartbeatFailures |-> heartbeatFailures]

\* C4: register() sets REGISTERED and the failure counter to 0 and returns
\* true exactly when its POST answers 200 or 201; otherwise (other status,
\* network failure, no WiFi) it returns false and leaves both as they were.
C4_RegisterOutcome ==
    [][Called(log', "registerWithRegistry") =>
         IF RegisterSucceeded(log')
         THEN /\ HasEvent(log', Ret("registerWithRegistry", TRUE))
              /\ registryConnected'
              /\ heartbeatFailures' = 0
         ELSE /\ HasEvent(log', Ret("registerWithRegistry", FALSE))
              /\ ~HasEvent(log', Ret("registerWithRegistry", TRUE))
              /\ registryConnected' = AtRegisterCall(log').registryConnected
              /\ heartbeatFailures' = AtRegisterCall(log').heartbeatFailures
              /\ wifiConnected' <=> PostsTo(log', "/agents") # {}]_vars

C4_Witness ==
    /\ lastOp = "BtnA"
    /\ Called(log, "registerWithRegistry")
    /\ \E i \in PostsTo(log, "/agents") : log[i].code = 409
    /\ ~registryConnected
    /\ heartbeatFailures = 4

\* C5: when the state is not REGISTERED, heartbeat() returns false, sends
\* no request and changes neither the failure counter nor the state.
C5_HeartbeatNoOpWhenUnregistered ==
    [][(Called(log', "sendHeartbeat") /\ ~registryConnected) =>
         /\ HasEvent(log', Ret("sendHeartbeat", FALSE))
         /\ HttpEvents(log') = {}
         /\ heartbeatFailures' = heartbeatFailures
         /\ registryConnected' = registryConnected]_vars

C5_Witness ==
    /\ lastOp = "heartbeatTimer"
    /\ wifiConnected /\ ~registryConnected
    /\ heartbeatFailures = 4
    /\ tunnelConnected
    /\ HasEvent(log, Ret("sendHeartbeat", FALSE))
    /\ HttpEvents(log) = {}

\* What the n-th failed heartbeat in a row must cause when the registration
\* is given up at the limit-th one
GivesUpAt(limit, n, l) ==
    IF n = limit
    THEN HasEvent(l, Dropped) /\ CountCalls(l, "registerWithRegistry") = 1
    ELSE n < limit => ~HasEvent(l, Dropped) /\ CountCalls(l, "registerWithRegistry") = 0

C7_IncrementAndImmediateReregister ==
    [][/\ HeartbeatFailed(log') =>
            IF heartbeatFailures + 1 > 3
            THEN /\ HasEvent(log', Dropped)
                 /\ CountCalls(log', "registerWithRegistry") = 1
                 /\ HasEvent(log', Ret("sendHeartbeat", FALSE))
                 /\ Position(log', Dropped) < Position(log', Call("registerWithRegistry"))
                 /\ Position(log', Call("registerWithRegistry"))
                        < Position(log', Ret("sendHeartbeat", FALSE))
                 /\ IF RegisterSucceeded(log')
                    THEN heartbeatFailures' = 0 /\ registryConnected'
                    ELSE heartbeatFailures' = heartbeatFailures + 1 /\ ~registryConnected'
            ELSE /\ heartbeatFailures' = heartbeatFailures + 1
                 /\ registryConnected'
                 /\ ~HasEvent(log', Dropped)
                 /\ ~Called(log', "registerWithRegistry")
       /\ (registryConnected /\ (~registryConnected' \/ HasEvent(log', Dropped))) =>
            HeartbeatFailed(log') /\ heartbeatFailures + 1 > 3]_vars

C7_Witness ==
    /\ lastOp = "heartbeatTimer"
    /\ HeartbeatFailed(log)
    /\ HasEvent(log, Dropped)
    /\ RegisterSucceeded(log)
    /\ registryConnected
    /\ heartbeatFailures = 0

\* C8: a successful heartbeat or a successful register() leaves the failure
\* counter at 0, so the counter is always the number of heartbeats that
\* failed in a row since the last success.
C8_SuccessResetsCounter ==
    /\ (HeartbeatSucceeded(log) \/ RegisterSucceeded(log)) => heartbeatFailures = 0
    /\ heartbeatFailures = failStreak

C8_Witness ==
    /\ lastOp = "BtnA"
    /\ currentScreen = MENU_HOME
    /\ HeartbeatFailed(log)
    /\ \E i \in PostsTo(log, "/agents") : log[i].code = 201
    /\ heartbeatFailures = 0
    /\ failStreak = 0

\* C9: the endpoint is written only by locate(): register(), heartbeat()
\* with its re-registration, peer refresh, tunnel connect and the tunnel
\* events leave it unchanged, and the re-registration after repeated
\* heartbeat failure posts to the same endpoint without a new locate().
C9_EndpointWrittenOnlyByLocate ==
    [][/\ registryUrl' # registryUrl =>
            lastOp' = "setup" /\ Called(log', "autoDetectRegistry")
       /\ HasEvent(log', Dropped) =>
            /\ ~Called(log', "autoDetectRegistry")
            /\ \A i \in PostsTo(log', "/agents") : log'[i].url = AgentsUrl(registryUrl)]_vars

C9_Witness ==
    /\ HasEvent(log, Dropped)
    /\ PostsTo(log, "/agents") # {}
    /\ registryUrl = SavedUrl
    /\ wsState = "connected"

-----------------------------------------------------------------------------
(* Peer Directory: claims *)

\* C10: in every reachable state the peer snapshot holds at most 10 entries
\* and none of them carries the device's own handle, whatever the registry
\* lists.
C10_SnapshotBoundedWithoutSelf ==
    /\ Len(discoveredAgents) <= 10
    /\ \A i \in 1..Len(discoveredAgents) : discoveredAgents[i].handle # deviceHandle

C10_Witness ==
    /\ lastOp = "discoverAgents"
    /\ input.code = 200 /\ input.parses
    /\ Len(input.agents) = 11
    /\ input.agents[2].handle = deviceHandle
    /\ Len(discoveredAgents) = 10
    /\ discoveredAgents[10].handle = "agent-11"

-----------------------------------------------------------------------------
(* Peer Directory: failed refreshes and refreshes while unregistered *)

GetsTo(l, suffix) ==
    { i \in DOMAIN l : l[i].k = "http" /\ l[i].method = "GET" /\ Last(l[i].url) = suffix }

RefreshFailed(resp) == resp.code # 200 \/ ~resp.parses

\* C11: a peer refresh that fails (a status other than 200, no answer at
\* all, or a body that does not parse) leaves the snapshot, its entries and
\* their number, exactly as it was.
C11_FailedRefreshKeepsSnapshot ==
    [][(lastOp' = "discoverAgents" /\ RefreshFailed(input'))
           => /\ discoveredAgents' = discoveredAgents
              /\ Len(discoveredAgents') = Len(discoveredAgents)]_vars

\* A full snapshot has just survived a 200 whose body does not parse.
C11_Witness ==
    /\ lastOp = "discoverAgents"
    /\ input.code = 200 /\ ~input.parses
    /\ GetsTo(log, "/agents") # {}
    /\ Len(discoveredAgents) = MaxAgents

\* C12: a peer refresh made while the device is not registered, from the
\* discovery timer or from button A on the discovery screen, issues no GET
\* to the agent collection and leaves the snapshot alone.
C12_Original_RefreshNoOpWhenUnregistered ==
    [][(lastOp' \in {"discoveryTimer", "BtnA"} /\ Called(log', "discoverAgents")
        /\ ~registryConnected')
           => /\ GetsTo(log', "/agents") = {}
              /\ discoveredAgents' = discoveredAgents]_vars

-----------------------------------------------------------------------------
(* The tunnel session on its own: inbound messages of every shape *)

\* Request paths: the routes, with and without a query, and others
RequestPaths ==
    { <<"/.well-known/agent.json">>, <<"/api/sensors">>, <<"/api/buttons">>,
      <<"/api/battery">>, <<"/api/wifi/scan">>,
      <<"/api/sensors", "?", "x=", "1">>,
      <<"/api/buzzer">>,
      <<"/api/buzzer", "?", "freq=", "440", "&", "duration=", "50">>,
      <<"/api/buzzer", "?", "duration=", "50">>,
      <<"/api/buzzer", "/", "on">>,
      <<"/api/display">>,
      <<"/api/display", "?", "text=", "hi", "%20", "there">>,
      <<"/api/display", "?", "size=", "2">>,
      <<"/api/display", "?", "con", "text=", "1">>,
      <<"/api/unknown">>, <<"/">> }

RequestFields == {"id", "method", "path", "body"}

\* Documents of type request: complete, without the id, or with the type only
RequestMessages ==
    { [parses |-> TRUE,
       doc |-> [has |-> {"type"} \cup h, type |-> "request", id |-> id,
                method |-> method, path |-> path, body |-> "{}"]] :
      h \in {RequestFields, RequestFields \ {"id"}, {}},
      id \in {"r1", "r2"}, method \in {"GET", "POST"}, path \in RequestPaths }

TunnelMessages ==
    RequestMessages
    \cup { [parses |-> FALSE, doc |-> [has |-> {}]],
           [parses |-> TRUE, doc |-> [has |-> {}]],
           [parses |-> TRUE, doc |-> [has |-> {"id"}, id |-> "r1"]],
           Plain("connected"), Plain("heartbeat_ack"), Plain("status"),
           Plain("response"), Plain("REQUEST") }

InitTunnel ==
    /\ pc = "loop"
    /\ input = <<>>
    /\ wifiConnected = TRUE
    /\ registryUrl = SavedUrl
    /\ registryConnected = TRUE
    /\ heartbeatFailures = 0
    /\ discoveredAgents = <<>>
    /\ tunnelConnected = FALSE
    /\ wsState = "connecting"
    /\ currentScreen = MENU_HOME
    /\ lastOp = "none"
    /\ log = <<>>
    /\ failStreak = 0
    /\ clock = InitialClock

\* webSocket.loop() delivers the text frame msg
TunnelText ==
    /\ pc = "loop"
    /\ wsState = "connected"
    /\ \E msg \in TunnelMessages :
          /\ input' = msg
          /\ Commit("WStype_TEXT", OnWsText(Globals, msg))
    /\ UNCHANGED <<pc, currentScreen>>

NextTunnel ==
    \/ WsTransportEvent /\ UNCHANGED clock
    \/ TunnelText /\ UNCHANGED clock

SpecTunnel == InitTunnel /\ [][NextTunnel]_vars

Sends(l) == {i \in 1..Len(l) : l[i].k = "send"}

IsRequest(msg) == msg.parses /\ Field(msg.doc, "type", "") = "request"

\* The types webSocketEvent has a branch for
KnownTypes == {"connected", "request", "heartbeat_ack"}

\* The response the request msg is due
ResponseTo(msg) ==
    [type |-> "response",
     id |-> Field(msg.doc, "id", ""),
     status |-> 200,
     headers |-> [ContentType |-> "application/json"],
     body |-> processTunnelRequest(Field(msg.doc, "method", "GET"),
                                   Field(msg.doc, "path", <<"/">>),
                                   Field(msg.doc, "body", ""))]

C14_GarbageDropped ==
    [][(lastOp' = "WStype_TEXT"
        /\ (~input'.parses \/ Field(input'.doc, "type", "") \notin KnownTypes))
           => /\ Sends(log') = {}
              /\ ~Called(log', "processTunnelRequest")
              /\ tunnelConnected' = tunnelConnected
              /\ wsState' = "connected"]_vars

\* A payload that does not parse has arrived on a connected tunnel, and the
\* tunnel is still connected.
C14_Witness ==
    /\ lastOp = "WStype_TEXT"
    /\ ~input.parses
    /\ tunnelConnected /\ wsState = "connected"
    /\ log = <<Call("webSocketEvent")>>

-----------------------------------------------------------------------------
(* The device against the clock: the heartbeat and tunnel timers of loop()  *)
(* and the WebSocketsClient's reconnect and keepalive.  Text frames and the *)
(* peer refresh write nothing the timers read and are left to the other     *)
(* specifications.                                                          *)

\* millis() - last... one tick later; differences beyond limit are not told apart
Advance(since, limit) == IF since > limit THEN since ELSE since + TickMs

\* millis() at the first pass of loop(): what setup() has taken
SetupDurations == {TickMs, 3 * TickMs}

\* The answers of the registry in the timed model
TimedInputs ==
    { [saved |-> SavedUrl, mdns |-> NoMdns, mdnsCode |-> -1,
       gateway |-> <<192, 168, 1, 1>>, probe |-> AllTimeout, pub |-> PubFailed] }
TimedRegisterCodes == {201, -1}
TimedHeartbeatCodes == {200, -1}

Tracks == {"attempts", "drop", "heartbeat"}

\* Faulty variant: the tunnel timer reconnects only a tunnel that had been
\* begun before.
TunnelDue_OnlyBegun ==
    /\ wifiConnected /\ registryConnected /\ ~tunnelConnected
    /\ wsState # "idle"
    /\ clock.sinceTunnelCheck > TUNNEL_RECONNECT_INTERVAL

\* The tests of the two timers
HeartbeatDue == wifiConnected /\ clock.sinceHeartbeat > HEARTBEAT_INTERVAL
TunnelDue ==
    /\ wifiConnected /\ registryConnected /\ ~tunnelConnected
    /\ clock.sinceTunnelCheck > TUNNEL_RECONNECT_INTERVAL

Began(l) == \E i \in 1..Len(l) : l[i].k = "begin"
EmitsHeartbeat(l) == \E i \in Sends(l) : l[i].msg.type = "heartbeat"

\* The clock after a connection attempt made by who
Attempted(c, who) ==
    [c EXCEPT !.sinceWs = 0,
              !.missed = 0,
              !.attemptBy = IF c.track = "attempts" THEN who ELSE @,
              !.prevAttemptBy = IF c.track = "attempts" THEN c.attemptBy ELSE @,
              !.sinceAttempt = 0]

\* setup(), after which every static of loop() is still 0
TimedSetup ==
    /\ SetupWith(TimedInputs, TimedRegisterCodes, {NoResponse})
    /\ \E d \in SetupDurations :
          LET c == [clock EXCEPT !.sinceHeartbeat = d, !.sinceTunnelCheck = d]
          IN  clock' = IF Began(log') THEN Attempted(c, "setup") ELSE c

\* Time passes.  loop() tests its timers on every pass, 10 ms apart, so no
\* tick goes by while one of them is due.
Tick ==
    /\ pc = "loop"
    /\ ~(HeartbeatDue \/ TunnelDue)
    /\ clock' = [clock EXCEPT
                    !.sinceHeartbeat = Advance(@, HEARTBEAT_INTERVAL),
                    !.sinceTunnelCheck = Advance(@, TUNNEL_RECONNECT_INTERVAL),
                    !.sinceWs = CASE wsState = "connecting" ->
                                         Advance(@, WS_RECONNECT_INTERVAL - 1)
                                  [] wsState = "connected" ->
                                         Advance(@, WS_PING_INTERVAL - 1)
                                  [] OTHER -> @,
                    !.sinceAttempt = IF clock.attemptBy # "none"
                                     THEN Advance(@, TUNNEL_RECONNECT_INTERVAL - 1) ELSE @,
                    !.sinceDrop = IF clock.dropped
                                  THEN Advance(@, TUNNEL_RECONNECT_INTERVAL - 1) ELSE @,
                    !.sinceTunnelHb = IF clock.track = "heartbeat" /\ tunnelConnected
                                      THEN Advance(@, WS_PING_INTERVAL + TickMs) ELSE @]
    /\ lastOp' = "tick"
    /\ log' = <<>>
    /\ UNCHANGED <<pc, input, wifiConnected, registryUrl, registryConnected,
                   heartbeatFailures, discoveredAgents, tunnelConnected, wsState,
                   currentScreen, failStreak>>

\* millis() - lastHeartbeatTime > HEARTBEAT_INTERVAL
TimedHeartbeat ==
    /\ HeartbeatDue
    /\ HeartbeatTimerWith(TimedHeartbeatCodes, TimedRegisterCodes)
    /\ clock' = [clock EXCEPT
                    !.sinceHeartbeat = 0,
                    !.sinceTunnelHb = IF EmitsHeartbeat(log') THEN 0 ELSE @]

\* Faulty variant: lastTunnelCheck is not set
TimedTunnel_NoStamp ==
    /\ TunnelDue
    /\ TunnelTimer
    /\ clock' = [Attempted(clock, "loop") EXCEPT
                    !.reconnectsSinceDrop = IF clock.dropped /\ @ < 2 THEN @ + 1 ELSE @]

\* millis() - lastTunnelCheck > TUNNEL_RECONNECT_INTERVAL
TimedTunnel ==
    /\ TunnelDue
    /\ TunnelTimer
    /\ clock' = [Attempted(clock, "loop") EXCEPT
                    !.sinceTunnelCheck = 0,
                    !.reconnectsSinceDrop = IF clock.dropped /\ @ < 2 THEN @ + 1 ELSE @]

\* A transport event: a link that comes up starts the keepalive afresh, a
\* pong clears the missed count.
TimedWsEvent ==
    /\ WsTransportEvent
    /\ clock' = CASE lastOp' = "WStype_CONNECTED" ->
                         [clock EXCEPT !.missed = 0, !.sinceWs = 0, !.sinceTunnelHb = 0,
                                       !.dropped = FALSE, !.sinceDrop = 0,
                                       !.reconnectsSinceDrop = 0]
                  [] lastOp' = "WStype_DISCONNECTED" ->
                         [clock EXCEPT !.missed = 0, !.sinceWs = 0]
                  [] lastOp' = "WStype_PONG" ->
                         [clock EXCEPT !.missed = 0]
                  [] OTHER -> clock

\* setReconnectInterval(5000): the client, once begun and not connected,
\* tries again by itself, 5 s or more after the attempt before.
WsRetry ==
    /\ pc = "loop"
    /\ wsState = "connecting"
    /\ clock.sinceWs >= WS_RECONNECT_INTERVAL
    /\ clock' = Attempted(clock, "transport")
    /\ lastOp' = "wsRetry"
    /\ log' = <<>>
    /\ UNCHANGED <<pc, input, wifiConnected, registryUrl, registryConnected,
                   heartbeatFailures, discoveredAgents, tunnelConnected, wsState,
                   currentScreen, failStreak>>

\* enableHeartbeat(15000, 3000, 2): the ping the client sends every 15 s is
\* not answered within 3 s; with the second miss in a row the client closes
\* the link and reports WStype_DISCONNECTED.
PongTimeout ==
    /\ pc = "loop"
    /\ wsState = "connected"
    /\ clock.sinceWs >= WS_PING_INTERVAL
    /\ IF clock.missed + 1 >= WS_DISCONNECT_TIMEOUT_COUNT
       THEN /\ LET r == OnWsEvent(Globals, "WStype_DISCONNECTED")
               IN  Commit("pongTimeout",
                          [g |-> [r.g EXCEPT !.wsState = "connecting"], log |-> r.log])
            /\ clock' = [clock EXCEPT !.missed = 0,
                                      !.sinceWs = 0,
                                      !.dropped = (clock.track = "drop"),
                                      !.sinceDrop = 0,
                                      !.reconnectsSinceDrop = 0]
       ELSE /\ clock' = [clock EXCEPT !.missed = @ + 1, !.sinceWs = 0]
            /\ lastOp' = "pongTimeout"
            /\ log' = <<>>
            /\ UNCHANGED <<wifiConnected, registryUrl, registryConnected,
                           heartbeatFailures, discoveredAgents, tunnelConnected,
                           wsState, failStreak>>
    /\ UNCHANGED <<pc, input, currentScreen>>

\* Button B pressed until the screen is again one on which button A talks
\* to the registry: the home screen or the discovery screen
ButtonBToRegistryScreen ==
    /\ pc = "loop"
    /\ currentScreen' = IF currentScreen = MENU_HOME THEN MENU_DISCOVERY ELSE MENU_HOME
    /\ \E n \in 1..MENU_COUNT :
          currentScreen' = MenuOrder[((IndexOf(MenuOrder, currentScreen) + n) % MENU_COUNT) + 1]
    /\ Commit("BtnB", [g |-> Globals, log |-> <<>>])
    /\ UNCHANGED <<pc, input>>

InitTimed ==
    /\ InitDevice
    /\ clock \in { [InitialClock EXCEPT !.track = t] : t \in Tracks }

NextTimed ==
    \/ TimedSetup
    \/ Tick
    \/ TimedHeartbeat
    \/ TimedTunnel
    \/ TimedWsEvent
    \/ WsRetry
    \/ PongTimeout
    \/ ButtonBToRegistryScreen /\ UNCHANGED clock
    \/ ButtonAWith(TimedRegisterCodes, TimedHeartbeatCodes, {NoResponse}) /\ UNCHANGED clock

SpecTimed == InitTimed /\ [][NextTimed]_vars

-----------------------------------------------------------------------------
(* Tunnel Session: connection attempts, keepalive, heartbeat *)

\* This step makes a connection attempt: connectTunnel() reaches
\* webSocket.begin, or the client retries by itself.
AttemptStep == Began(log') \/ lastOp' = "wsRetry"

\* This step is the reconnect of loop()
LoopReconnectStep == lastOp' = "tunnelTimer" /\ Began(log')

C16_Original_NoAttemptWhileUnregistered ==
    [][AttemptStep => registryConnected']_vars

C18_Original_OwnCadence ==
    (clock.track = "heartbeat" /\ tunnelConnected)
        => clock.sinceTunnelHb <= WS_PING_INTERVAL + TickMs

\* C18: the heartbeat message {type: heartbeat, handle} goes out in the
\* steps of the registry heartbeat timer and in no other, more than 30 s
\* after the timer fired before, whenever the tunnel is connected: whether
\* the registry heartbeat succeeded, failed or was skipped does not matter.
C18_TunnelHeartbeatWithRegistryTimer ==
    [][/\ EmitsHeartbeat(log') <=> (lastOp' = "heartbeatTimer" /\ tunnelConnected)
       /\ lastOp' = "heartbeatTimer"
             => /\ clock.sinceHeartbeat > HEARTBEAT_INTERVAL
                /\ Called(log', "sendHeartbeat") /\ Called(log', "sendTunnelHeartbeat")]_vars

\* The heartbeat message has gone out after a registry heartbeat that failed.
C18_Witness ==
    /\ lastOp = "heartbeatTimer"
    /\ HeartbeatFailed(log)
    /\ EmitsHeartbeat(log)
    /\ tunnelConnected

-----------------------------------------------------------------------------
(* Local Request Executor: the routes of the HTTP server and of the tunnel *)

\* AsyncWebServerRequest::url(): the path without the query
UrlOf(path) ==
    IF IndexOf(path, "?") >= 0 THEN SubstringTo(path, IndexOf(path, "?")) ELSE path

QueryOf(path) ==
    IF IndexOf(path, "?") >= 0 THEN SubstringFrom(path, IndexOf(path, "?") + 1) ELSE <<>>

\* Where the parameter name starts in a query, 0 when it has none: name is
\* written with its "=" and begins the query or follows a "&"
ParamAt(query, name) ==
    LET at == {i \in 1..Len(query) : query[i] = name /\ (i = 1 \/ query[i - 1] = "&")}
    IN  IF at = {} THEN 0 ELSE CHOOSE i \in at : \A j \in at : i <= j

\* request->hasParam(name)
HasParam(query, name) == ParamAt(query, name) > 0

\* request->getParam(name)->value(): what follows name up to the next "&",
\* URL-decoded
ParamValue(query, name) ==
    LET rest == SubstringFrom(query, ParamAt(query, name))
        value == IF IndexOf(rest, "&") >= 0 THEN SubstringTo(rest, IndexOf(rest, "&")) ELSE rest
    IN  [i \in 1..Len(value) |-> IF value[i] = "%20" THEN " " ELSE value[i]]

\* server.on(uri, ...) handles the url uri and the urls below it
Handles(uri, url) ==
    \/ url = <<uri>>
    \/ Len(url) > 1 /\ url[1] = uri /\ url[2] = "/"

Answer(status, body) == [status |-> status, body |-> body]
NoAnswer == [status |-> 404, body |-> <<>>]
\* The device resets: the client gets no answer
Crash == [status |-> 0, body |-> <<>>]

\* setupServer: the outcomes the server can produce for a request.  Every
\* route is registered for HTTP_GET; a request no route handles gets the
\* server's 404.  /api/display calls getParam("text")->value() unchecked:
\* without the parameter that is a call through a null pointer, after which
\* the device resets or goes on with an arbitrary text.
serveHttp(method, path) ==
    LET url == UrlOf(path)
        query == QueryOf(path)
    IN  IF method # "GET" THEN {NoAnswer}
        ELSE IF Handles("/.well-known/agent.json", url)
        THEN {Answer(200, HandlerResult("getAgentCard"))}
        ELSE IF Handles("/api/sensors", url)
        THEN {Answer(200, HandlerResult("handleSensorsRead"))}
        ELSE IF Handles("/api/buttons", url)
        THEN {Answer(200, HandlerResult("handleButtonStatus"))}
        ELSE IF Handles("/api/battery", url)
        THEN {Answer(200, HandlerResult("handleBatteryStatus"))}
        ELSE IF Handles("/api/wifi/scan", url)
        THEN {Answer(200, HandlerResult("handleWifiScan"))}
        ELSE IF Handles("/api/display", url)
        THEN IF HasParam(query, "text=")
             THEN {Answer(200, [handler |-> "handleDisplayShow",
                                text |-> ParamValue(query, "text=")])}
             ELSE {Crash,
                   Answer(200, [handler |-> "handleDisplayShow", text |-> <<>>])}
        ELSE IF Handles("/api/buzzer", url)
        THEN {Answer(200,
                     [handler |-> "handleBuzzerTone",
                      freq |-> IF HasParam(query, "freq=")
                               THEN ToInt(ParamValue(query, "freq=")) ELSE 1000,
                      duration |-> IF HasParam(query, "duration=")
                                   THEN ToInt(ParamValue(query, "duration=")) ELSE 100])}
        ELSE IF url = <<"/">> THEN {Answer(200, HandlerResult("dashboard"))}
        ELSE IF Handles("/chat", url) THEN {Answer(200, HandlerResult("chat"))}
        ELSE {NoAnswer}

Served(transport, result) == [k |-> "served", by |-> transport, result |-> result]

RouteInputs == [method : {"GET", "POST"}, path : RequestPaths, body : {"", "{}"}]

InitRoutes ==
    /\ pc = "route"
    /\ input \in RouteInputs
    /\ wifiConnected = TRUE
    /\ registryUrl = SavedUrl
    /\ registryConnected = TRUE
    /\ heartbeatFailures = 0
    /\ discoveredAgents = <<>>
    /\ tunnelConnected = TRUE
    /\ wsState = "connected"
    /\ currentScreen = MENU_HOME
    /\ lastOp = "none"
    /\ log = <<>>
    /\ failStreak = 0
    /\ clock = InitialClock

\* The same request served by the HTTP server and by the tunnel
Route ==
    /\ pc = "route"
    /\ \E answer \in serveHttp(input.method, input.path) :
          Commit("route",
                 [g |-> Globals,
                  log |-> <<Served("http", answer),
                            Served("tunnel",
                                   processTunnelRequest(input.method, input.path,
                                                        input.body))>>])
    /\ pc' = "routed"
    /\ UNCHANGED <<input, currentScreen, clock>>

NextRoutes == Route

SpecRoutes == InitRoutes /\ [][NextRoutes]_vars

\* The server's answer and the tunnel's result say the same: the same
\* handler result, or not found on both sides.
SameResult(answer, result) ==
    IF answer.status = 200 THEN result = answer.body
    ELSE answer.status = 404 /\ "error" \in DOMAIN result

\* C19 as stated: for every method and path the request gets the same result
\* through the HTTP server and through the tunnel: the same paths are
\* recognised, with the same handler and parameters, and requests that match
\* nothing or lack their parameter are treated alike.
C19_Original_SameResultOnBothTransports ==
    pc = "routed" => SameResult(log[1].result, log[2].result)

-----------------------------------------------------------------------------
(* End to end: nothing reachable at startup *)

\* The device runs unregistered and has never opened the tunnel
Standalone == pc = "loop" /\ ~registryConnected /\ wsState = "idle"

NoRegistryOrTunnelTraffic(l) ==
    /\ PostsTo(l, "/heartbeat") = {}
    /\ ~Began(l)
    /\ Sends(l) = {}

\* C20: when registration fails at startup the device stays unregistered,
\* and until button A on the discovery screen registers it, whatever timers
\* fire and however often, there is no heartbeat request to the registry, no
\* tunnel connection attempt and no message on the tunnel; no step other
\* than that button registers it.
C20_StandaloneUntilManualRegistration ==
    [][/\ (lastOp' = "setup" /\ ~RegisterSucceeded(log'))
             => Standalone' /\ NoRegistryOrTunnelTraffic(log')
       /\ (Standalone /\ ~RegisterSucceeded(log'))
             => Standalone' /\ NoRegistryOrTunnelTraffic(log')
       /\ (Standalone /\ RegisterSucceeded(log'))
             => lastOp' = "BtnA" /\ currentScreen = MENU_DISCOVERY]_vars

\* Nothing answered at startup (the endpoint is the gateway fallback), the
\* registration failed, and the heartbeat timer has fired to no effect.
C20_Witness ==
    /\ Standalone
    /\ wifiConnected
    /\ registryUrl = FallbackUrl(<<192, 168, 1, 1>>)
    /\ lastOp = "heartbeatTimer"
    /\ log = <<Call("sendHeartbeat"), Ret("sendHeartbeat", FALSE),
               Call("sendTunnelHeartbeat")>>

-----------------------------------------------------------------------------
(* The tunnel target: connectTunnel() over endpoint strings *)

\* String::lastIndexOf on a tokenised string: 0-based position of the last
\* occurrence of tok, -1 when absent.
LastIndexOf(s, tok) ==
    IF \E i \in 1..Len(s) : s[i] = tok
    THEN (CHOOSE i \in 1..Len(s) : s[i] = tok /\ \A j \in (i + 1)..Len(s) : s[j] # tok) - 1
    ELSE -1

\* The endpoints registryUrl can hold: scheme, optional user information,
\* host name or address literal, optional port, optional path.  The saved
\* value and the url of the public list are free text.
EndpointSchemes == { <<"http://">>, <<"https://">>, <<>> }
EndpointUsers == { <<>>, <<"user", ":", "pw@">> }
EndpointHosts == { <<"registry.lan">>, <<"192.168.1.1">>, <<"[fe80", ":", ":", "1]">> }
EndpointPorts == { <<>>, <<":", "80">>, <<":", "3000">>, <<":", "8080">> }
EndpointPaths == { <<>>, <<"/api">> }
Endpoints ==
    { s \o u \o h \o p \o t :
        s \in EndpointSchemes, u \in EndpointUsers, h \in EndpointHosts,
        p \in EndpointPorts, t \in EndpointPaths }

InitTarget ==
    /\ pc = "loop"
    /\ input = <<>>
    /\ wifiConnected = TRUE
    /\ registryUrl \in Endpoints \cup {<<>>}
    /\ registryConnected = TRUE
    /\ heartbeatFailures = 0
    /\ discoveredAgents = <<>>
    /\ tunnelConnected = FALSE
    /\ wsState = "idle"
    /\ currentScreen = MENU_HOME
    /\ lastOp = "none"
    /\ log = <<>>
    /\ failStreak = 0
    /\ clock = InitialClock

\* connectTunnel() on the current endpoint
ConnectTarget ==
    /\ pc = "loop"
    /\ Commit("connectTunnel", connectTunnel(Globals))
    /\ UNCHANGED <<pc, input, currentScreen>>

NextTarget ==
    \/ ConnectTarget /\ UNCHANGED clock

SpecTarget == InitTarget /\ [][NextTarget]_vars

StripScheme(url) == Without(Without(url, "http://"), "https://")

\* The target the client was told to connect to, <<host, port>>
BegunTargets(l) == { <<l[i].host, l[i].port>> : i \in {j \in 1..Len(l) : l[j].k = "begin"} }

\* C21 (as stated): for every endpoint, connectTunnel() connects to the host
\* before the LAST colon of the scheme-stripped endpoint and to the port
\* after it, and to port 80 when there is no colon.
C21_Original_SplitOnLastColon ==
    (lastOp = "connectTunnel" /\ Len(registryUrl) > 0)
        => LET url == StripScheme(registryUrl)
               p == LastIndexOf(url, ":")
           IN  BegunTargets(log) =
                   { IF p = -1 THEN <<url, 80>>
                     ELSE <<SubstringTo(url, p), ToInt(SubstringFrom(url, p + 1))>> }

-----------------------------------------------------------------------------
(* Device identity: generateDeviceId() over hardware addresses *)

HexDigits == <<"0", "1", "2", "3", "4", "5", "6", "7",
               "8", "9", "a", "b", "c", "d", "e", "f">>

\* printf's %02x of a uint8_t: two lowercase hex digits, zero padded
Format02x(b) == <<HexDigits[(b \div 16) + 1], HexDigits[(b % 16) + 1]>>

\* snprintf(buf, size, ...): at most size - 1 characters are stored
Snprintf(size, chars) ==
    SubSeq(chars, 1, IF Len(chars) < size - 1 THEN Len(chars) ELSE size - 1)

\* Faulty variant: the bytes are printed without zero padding (%x).
generateDeviceId_Unpadded(mac) ==
    LET fmt(b) == IF b < 16 THEN <<HexDigits[b + 1]>> ELSE Format02x(b)
        shortId == Snprintf(7, fmt(mac[4]) \o fmt(mac[5]) \o fmt(mac[6]))
        fullId == Snprintf(18, fmt(mac[1]) \o fmt(mac[2]) \o fmt(mac[3])
                                \o fmt(mac[4]) \o fmt(mac[5]) \o fmt(mac[6]))
    IN  [deviceId |-> fullId,
         deviceHandle |-> <<"m5stick-">> \o shortId,
         deviceHostname |-> <<"nanda-">> \o shortId,
         deviceName |-> <<"M5Stick ">> \o shortId]

\* generateDeviceId: the identifiers as character sequences after their
\* fixed prefix
generateDeviceId(mac) ==
    LET shortId == Snprintf(7, Format02x(mac[4]) \o Format02x(mac[5]) \o Format02x(mac[6]))
        fullId == Snprintf(18, Format02x(mac[1]) \o Format02x(mac[2]) \o Format02x(mac[3])
                                \o Format02x(mac[4]) \o Format02x(mac[5]) \o Format02x(mac[6]))
    IN  [deviceId |-> fullId,
         deviceHandle |-> <<"m5stick-">> \o shortId,
         deviceHostname |-> <<"nanda-">> \o shortId,
         deviceName |-> <<"M5Stick ">> \o shortId]

\* The bytes WiFi.macAddress() can give: with a zero high digit, a zero low
\* digit, digits only, letters only, both.
MacBytes == {0, 9, 26, 171, 255}
MacAddresses == [1..6 -> MacBytes]

InitIdentity ==
    /\ pc = "boot"
    /\ input \in MacAddresses
    /\ wifiConnected = InitialGlobals.wifiConnected
    /\ registryUrl = InitialGlobals.registryUrl
    /\ registryConnected = InitialGlobals.registryConnected
    /\ heartbeatFailures = InitialGlobals.heartbeatFailures
    /\ discoveredAgents = InitialGlobals.discoveredAgents
    /\ tunnelConnected = InitialGlobals.tunnelConnected
    /\ wsState = InitialGlobals.wsState
    /\ currentScreen = MENU_HOME
    /\ lastOp = "none"
    /\ log = <<>>
    /\ failStreak = 0
    /\ clock = InitialClock

\* setup() calls generateDeviceId() on every start; input is the address
GenerateId ==
    /\ pc = "boot"
    /\ lastOp' = "generateDeviceId"
    /\ log' = <<Call("generateDeviceId"),
                Ret("generateDeviceId", generateDeviceId(input))>>
    /\ UNCHANGED <<pc, input, wifiConnected, registryUrl, registryConnected,
                   heartbeatFailures, discoveredAgents, tunnelConnected, wsState,
                   currentScreen, failStreak>>

NextIdentity ==
    \/ GenerateId /\ UNCHANGED clock

SpecIdentity == InitIdentity /\ [][NextIdentity]_vars

\* The value of a lowercase hex digit, -1 for anything else
HexValue(c) ==
    IF \E i \in 1..16 : HexDigits[i] = c
    THEN (CHOOSE i \in 1..16 : HexDigits[i] = c) - 1
    ELSE -1

\* C22: for every 6-byte address the identity is a function of the address
\* alone: full_id is 12 lowercase hex digits that spell the six bytes in
\* order, short_id is the last 6 of them, handle is "m5stick-" + short_id
\* and hostname is "nanda-" + short_id.
C22_IdentityFromAddress ==
    lastOp = "generateDeviceId"
        => LET id == log[2].v
               full == id.deviceId
               short == SubSeq(full, 7, 12)
           IN  /\ Len(full) = 12
               /\ \A i \in 1..12 : HexValue(full[i]) >= 0
               /\ \A i \in 1..6 :
                     16 * HexValue(full[2 * i - 1]) + HexValue(full[2 * i]) = input[i]
               /\ id.deviceHandle = <<"m5stick-">> \o short
               /\ id.deviceHostname = <<"nanda-">> \o short
               /\ Len(id.deviceHandle) = 7 /\ Len(id.deviceHostname) = 7

C22_Witness ==
    /\ lastOp = "generateDeviceId"
    /\ input = <<0, 9, 26, 171, 255, 9>>
    /\ log[2].v.deviceHandle = <<"m5stick-", "a", "b", "f", "f", "0", "9">>

-----------------------------------------------------------------------------
(* Repeated heartbeats under one fixed network outcome *)

\* The states sendHeartbeat() can be called in: registration needs WiFi,
\* a registered device has at most HeartbeatFailLimit failures counted, an
\* unregistered one none or the count that made it give up.
HeartbeatStates ==
    { s \in [wifiConnected : BOOLEAN, registryConnected : BOOLEAN,
             heartbeatFailures : 0..(HeartbeatFailLimit + 1)] :
        /\ s.registryConnected => (s.wifiConnected /\ s.heartbeatFailures <= HeartbeatFailLimit)
        /\ ~s.registryConnected => s.heartbeatFailures \in {0, HeartbeatFailLimit + 1}
        /\ ~s.wifiConnected => s.heartbeatFailures = 0 }

\* The network's answer to the heartbeat and to a registration, fixed for a run
FixedOutcomes == [heartbeat : {200, 404, 500, -1}, register : {200, 201, 409, -1}]

InitHeartbeat ==
    /\ pc = "loop"
    /\ input \in FixedOutcomes
    /\ \E s \in HeartbeatStates :
          /\ wifiConnected = s.wifiConnected
          /\ registryConnected = s.registryConnected
          /\ heartbeatFailures = s.heartbeatFailures
    /\ registryUrl = SavedUrl
    /\ discoveredAgents = <<>>
    /\ tunnelConnected = FALSE
    /\ wsState = "idle"
    /\ currentScreen = MENU_HOME
    /\ lastOp = "none"
    /\ log = <<>>
    /\ failStreak = 0
    /\ clock = InitialClock

\* sendHeartbeat() under the outcome of the run
RepeatHeartbeat ==
    /\ pc = "loop"
    /\ Commit("sendHeartbeat", sendHeartbeat(Globals, input.heartbeat, input.register))
    /\ UNCHANGED <<pc, input, currentScreen>>

NextHeartbeat ==
    \/ RepeatHeartbeat /\ UNCHANGED clock

SpecHeartbeat == InitHeartbeat /\ [][NextHeartbeat]_vars

\* A call of sendHeartbeat() that directly follows another
SecondCall == lastOp = "sendHeartbeat" /\ lastOp' = "sendHeartbeat"

\* C23 (as stated): under every fixed outcome a second call in a row leaves
\* the registration flag and the failure counter as the first call left them.
C23_Original_Idempotent ==
    [][SecondCall => /\ registryConnected' = registryConnected
                     /\ heartbeatFailures' = heartbeatFailures]_vars

\* C23 (amended): a second call in a row changes nothing when the heartbeat
\* is answered 200 or the device is offline or unregistered; on a registered
\* device every failed call counts: it adds one to the counter, and the call
\* that takes it above the limit drops the registration and registers again.
C23_IdempotentOnSuccessCountsFailures ==
    [][SecondCall =>
         IF input.heartbeat = 200 \/ ~wifiConnected \/ ~registryConnected
         THEN /\ registryConnected' = registryConnected
              /\ heartbeatFailures' = heartbeatFailures
         ELSE IF heartbeatFailures < HeartbeatFailLimit
              THEN registryConnected' /\ heartbeatFailures' = heartbeatFailures + 1
              ELSE IF input.register \in {200, 201}
                   THEN registryConnected' /\ heartbeatFailures' = 0
                   ELSE ~registryConnected'
                        /\ heartbeatFailures' = HeartbeatFailLimit + 1]_vars

\* Two failed calls in a row have been counted one by one.
C23_Witness ==
    /\ lastOp = "sendHeartbeat"
    /\ input.heartbeat = -1
    /\ failStreak = 2
    /\ heartbeatFailures = 2
    /\ registryConnected

-----------------------------------------------------------------------------
(* Peer Directory: what a successful refresh stores *)

\* The descriptors of a response that do not carry the own handle, in order
NonSelf(agents) == SelectSeq(agents, LAMBDA a : Field(a, "handle", "") # deviceHandle)

\* C24: after a refresh answered 200 with a body that parses, the snapshot
\* is exactly the first min(10, k) descriptors of the response without the
\* own handle, in response order, k being their number; nothing of the
\* previous snapshot is left, and a listed own handle costs no slot.
C24_SnapshotIsFirstTenOthers ==
    (lastOp = "discoverAgents" /\ input.code = 200 /\ input.parses)
        => LET others == NonSelf(input.agents)
               k == Len(others)
               m == IF k < 10 THEN k ELSE 10
           IN  /\ Len(discoveredAgents) = m
               /\ \A i \in 1..m :
                     /\ discoveredAgents[i].handle = Field(others[i], "handle", "")
                     /\ discoveredAgents[i].url = Field(others[i], "url", "")
                     /\ discoveredAgents[i].name =
                            Field(others[i], "name", Field(others[i], "handle", ""))
                     /\ discoveredAgents[i].healthy = Field(others[i], "healthy", FALSE)

\* Eleven listed, the own handle tenth: ten peers kept, the eleventh last.
C24_Witness ==
    /\ lastOp = "discoverAgents"
    /\ input.code = 200 /\ input.parses
    /\ Len(input.agents) = 11
    /\ input.agents[10].handle = deviceHandle
    /\ Len(NonSelf(input.agents)) = 10
    /\ Len(discoveredAgents) = 10
    /\ discoveredAgents[9].handle = "agent-9"
    /\ discoveredAgents[10].handle = "agent-11"

-----------------------------------------------------------------------------
(* Registry Locator: repeated work within one call *)

\* The urls health-checked by the probe sweep, in order: the /health
\* requests that follow the service-discovery phase.
SweepProbes(in, l) ==
    LET m == discoverRegistryMDNS(in.mdns)
        before == Len(m.log) + (IF Len(m.ret) > 0 THEN 1 ELSE 0)
        after == SubSeq(l, before + 1, Len(l))
    IN  SelectSeq(after, LAMBDA e : e.k = "http" /\ Last(e.url) = "/health")

\* How many times the events l hold a request or query equal to e
Times(l, e) == Cardinality({i \in 1..Len(l) : l[i] = e})

\* C25 (as stated): within one locate() call each mDNS query and the public
\* list fetch happen at most once, and no candidate base address is
\* health-checked more than once during the probe sweep, whatever the gateway.
C25_Original_NothingRetried ==
    pc = "located"
        => LET probes == SweepProbes(input, log)
           IN  /\ Times(log, MdnsQuery("nanda-registry")) <= 1
               /\ Times(log, MdnsQuery("http")) <= 1
               /\ Cardinality(HttpTo(log, "GET", PUBLIC_REGISTRY_LIST)) <= 1
               /\ \A i, j \in 1..Len(probes) : i # j => probes[i].url # probes[j].url

-----------------------------------------------------------------------------
(* Registry Locator: service discovery *)

HasToken(host) == \E t \in 1..Len(host) : host[t] \in {"nanda", "registry"}

\* The generic records whose advertised name holds one of the tokens
GenericHits(in) == {i \in 1..Len(in.mdns.http) : HasToken(in.mdns.http[i].host)}

\* The record service discovery yields: the dedicated one, else the first
\* generic one with a token in its name
YieldedUrl(in) ==
    IF in.mdns.dedicated # <<>>
    THEN MdnsUrl(in.mdns.dedicated[1])
    ELSE MdnsUrl(in.mdns.http[CHOOSE i \in GenericHits(in) : \A j \in GenericHits(in) : i <= j])

Yields(in) == in.mdns.dedicated # <<>> \/ GenericHits(in) # {}

\* The events of the later strategies: everything after the queries and the
\* health check of what they yielded
AfterDiscovery(in, l) ==
    SubSeq(l, (IF in.mdns.dedicated # <<>> THEN 1 ELSE 2) + (IF Yields(in) THEN 1 ELSE 0) + 1,
           Len(l))

\* C26 (as stated): the generic record is queried only if the dedicated
\* query returns nothing, and whenever service discovery yields a record
\* locate() adopts it as the endpoint and runs no later strategy.
C26_Original_DiscoveredRecordAdopted ==
    (Located /\ input.saved = <<>>) =>
        /\ HasEvent(log, MdnsQuery("http")) => input.mdns.dedicated = <<>>
        /\ Yields(input) =>
              /\ registryUrl = YieldedUrl(input)
              /\ AfterDiscovery(input, log) = <<>>

\* C26 (amended): the generic record is queried exactly when the dedicated
\* query returns nothing; what service discovery yields is health-checked
\* once, adopted with no later strategy run when the check answers 200, and
\* passed over for the probe sweep when it does not; a generic record
\* without a token is never checked.
C26_DiscoveredRecordAdoptedWhenHealthy ==
    (Located /\ input.saved = <<>>) =>
        /\ log[1] = MdnsQuery("nanda-registry")
        /\ HasEvent(log, MdnsQuery("http")) <=> input.mdns.dedicated = <<>>
        /\ Yields(input) =>
              /\ Times(log, HttpGet(HealthUrl(YieldedUrl(input)), input.mdnsCode)) >= 1
              /\ input.mdnsCode = 200 =>
                    /\ registryUrl = YieldedUrl(input)
                    /\ AfterDiscovery(input, log) = <<>>
              /\ input.mdnsCode # 200 =>
                    /\ AfterDiscovery(input, log) # <<>>
                    /\ AfterDiscovery(input, log)[1] =
                           HttpGet(HealthUrl(Candidates(input.gateway)[1]), input.probe[1])
        /\ ~Yields(input) =>
              /\ log[2] = MdnsQuery("http")
              /\ log[3] = HttpGet(HealthUrl(Candidates(input.gateway)[1]), input.probe[1])

\* A generic record named my-nanda-hub, second in the answer, is adopted
\* after its health check; a candidate that would have answered is not asked.
C26_Witness ==
    /\ Located
    /\ input.saved = <<>>
    /\ input.mdns.dedicated = <<>>
    /\ GenericHits(input) = {2, 3}
    /\ input.mdnsCode = 200
    /\ ProbeHits(input) # {}
    /\ registryUrl = <<"http://", "192.168.1.20", ":", "8080">>
    /\ log = <<MdnsQuery("nanda-registry"), MdnsQuery("http"),
               HttpGet(<<"http://", "192.168.1.20", ":", "8080", "/health">>, 200)>>

-----------------------------------------------------------------------------
(* Registry Locator: the remote list *)

\* Strategies 1 to 3 have failed: nothing saved, nothing discovered that
\* answers its health check, no candidate answering 200
ReachesRemoteList(in) ==
    /\ in.saved = <<>>
    /\ ~(Yields(in) /\ in.mdnsCode = 200)
    /\ ProbeHits(in) = {}

\* C27: the remote fallback fetches the list once and looks at its first
\* entry only: with a 200, a document that parses, a non-empty list and a
\* non-empty url in the first entry the endpoint is that url; in every other
\* case, a first entry without url followed by valid entries included, the
\* endpoint is the gateway fallback.
C27_RemoteListFirstEntryOnly ==
    (Located /\ ReachesRemoteList(input)) =>
        /\ Last(log) = HttpGet(PUBLIC_REGISTRY_LIST, input.pub.code)
        /\ Cardinality(HttpTo(log, "GET", PUBLIC_REGISTRY_LIST)) = 1
        /\ IF /\ input.pub.code = 200
              /\ input.pub.parses
              /\ Len(input.pub.registries) > 0
              /\ input.pub.registries[1].url # <<>>
           THEN registryUrl = input.pub.registries[1].url
           ELSE registryUrl = <<"http://", IpToString(input.gateway), ":",
                                ToString(DEFAULT_REGISTRY_PORT)>>

\* The first entry has no url, the second has one: the gateway is used.
C27_Witness ==
    /\ Located
    /\ ReachesRemoteList(input)
    /\ input.pub.code = 200 /\ input.pub.parses
    /\ Len(input.pub.registries) = 2
    /\ input.pub.registries[1].url = <<>>
    /\ input.pub.registries[2].url = PublicUrl
    /\ registryUrl = <<"http://", "10.0.0.254", ":", "3000">>
    /\ Last(log) = HttpGet(PUBLIC_REGISTRY_LIST, 200)

-----------------------------------------------------------------------------
(* Local Request Executor: unmatched paths on the tunnel *)

\* The fixed routes of the executor as the interface describes them: four
\* exact paths, everything that starts with the buzzer path, and what starts
\* with the display path and has a parameter named text in its query.
IsFixedRoute(path) ==
    \/ path \in { <<"/.well-known/agent.json">>, <<"/api/sensors">>,
                  <<"/api/buttons">>, <<"/api/battery">> }
    \/ Len(path) > 0 /\ path[1] = "/api/buzzer"
    \/ Len(path) > 0 /\ path[1] = "/api/display" /\ HasParam(QueryOf(path), "text=")

\* C28 (as stated): for every path that matches none of the fixed routes, a
\* display path without a text parameter included, the tunnel-side executor
\* returns the body {error: "Not found", path: <the path unchanged>}.
C28_Original_UnmatchedPathEchoed ==
    (pc = "routed" /\ ~IsFixedRoute(input.path))
        => log[2].result = [error |-> "Not found", path |-> input.path]

-----------------------------------------------------------------------------
(* The tunnel session step by step: frames waiting while a handler runs *)

MaxRelayed == 3         \* frames waiting plus requests delivered in one run

\* Frames the registry relays: two requests, an acknowledgement, garbage
RelayMessages ==
    { Request("r1", "GET", <<"/api/sensors">>),
      Request("r2", "GET", <<"/api/unknown">>),
      Plain("heartbeat_ack"),
      [parses |-> FALSE, doc |-> [has |-> {}]] }

\* input holds the frames received and not yet delivered (inbox), the frame
\* the callback is running on (handling), and history: the ids of the
\* requests in order of arrival, of delivery and of response, and the
\* callbacks begun and not returned (active).
NoRelay ==
    [inbox |-> <<>>, handling |-> <<>>, arrived |-> <<>>, delivered |-> <<>>,
     responded |-> <<>>, active |-> 0]

InitRelay ==
    /\ pc = "loop"
    /\ input = NoRelay
    /\ wifiConnected = TRUE
    /\ registryUrl = SavedUrl
    /\ registryConnected = TRUE
    /\ heartbeatFailures = 0
    /\ discoveredAgents = <<>>
    /\ tunnelConnected = TRUE
    /\ wsState = "connected"
    /\ currentScreen = MENU_HOME
    /\ lastOp = "none"
    /\ log = <<>>
    /\ failStreak = 0
    /\ clock = InitialClock

RelayId(msg) == Field(msg.doc, "id", "")

\* The registry sends a frame: it waits in the client's receive buffer,
\* whatever the device is doing.
RelayArrive ==
    /\ Len(input.inbox) + Len(input.delivered) < MaxRelayed
    /\ \E msg \in RelayMessages :
          input' = [input EXCEPT
                      !.inbox = Append(@, msg),
                      !.arrived = IF IsRequest(msg) THEN Append(@, RelayId(msg)) ELSE @]
    /\ UNCHANGED <<pc, wifiConnected, registryUrl, registryConnected, heartbeatFailures,
                   discoveredAgents, tunnelConnected, wsState, currentScreen, lastOp,
                   log, failStreak>>

\* Faulty variant: a frame is delivered as soon as it is there, also while
\* the callback is still running on the previous one.
RelayDeliver_WhileHandling ==
    /\ pc \in {"loop", "webSocketEvent"}
    /\ wsState = "connected"
    /\ input.inbox # <<>>
    /\ LET msg == Head(input.inbox)
       IN  /\ input' = [input EXCEPT
                          !.inbox = Tail(@),
                          !.handling = <<msg>>,
                          !.delivered = IF IsRequest(msg) THEN Append(@, RelayId(msg)) ELSE @,
                          !.active = @ + 1]
           /\ log' = <<OnWsText(Globals, msg).log[1]>>
    /\ pc' = "webSocketEvent"
    /\ lastOp' = "WStype_TEXT"
    /\ UNCHANGED <<wifiConnected, registryUrl, registryConnected, heartbeatFailures,
                   discoveredAgents, tunnelConnected, wsState, currentScreen, failStreak>>

\* loop() calls webSocket.loop(), which takes the oldest frame of the buffer
\* and calls webSocketEvent(WStype_TEXT) on it; the call is made from loop()
\* only, so not before the previous callback has returned.
RelayDeliver ==
    /\ pc = "loop"
    /\ wsState = "connected"
    /\ input.inbox # <<>>
    /\ LET msg == Head(input.inbox)
       IN  /\ input' = [input EXCEPT
                          !.inbox = Tail(@),
                          !.handling = <<msg>>,
                          !.delivered = IF IsRequest(msg) THEN Append(@, RelayId(msg)) ELSE @,
                          !.active = @ + 1]
           /\ log' = <<OnWsText(Globals, msg).log[1]>>
    /\ pc' = "webSocketEvent"
    /\ lastOp' = "WStype_TEXT"
    /\ UNCHANGED <<wifiConnected, registryUrl, registryConnected, heartbeatFailures,
                   discoveredAgents, tunnelConnected, wsState, currentScreen, failStreak>>

\* The callback goes on by one event: the executor call, then the send.
RelayStep ==
    /\ pc = "webSocketEvent"
    /\ LET r == OnWsText(Globals, input.handling[1])
       IN  /\ Len(log) < Len(r.log)
           /\ log' = Append(log, r.log[Len(log) + 1])
           /\ input' = IF r.log[Len(log) + 1].k = "send"
                       THEN [input EXCEPT !.responded = Append(@, r.log[Len(log) + 1].msg.id)]
                       ELSE input
    /\ UNCHANGED <<pc, wifiConnected, registryUrl, registryConnected, heartbeatFailures,
                   discoveredAgents, tunnelConnected, wsState, currentScreen, lastOp,
                   failStreak>>

\* The callback returns to webSocket.loop() and that to loop().
RelayReturn ==
    /\ pc = "webSocketEvent"
    /\ LET r == OnWsText(Globals, input.handling[1])
       IN  /\ Len(log) = Len(r.log)
           /\ Commit("WStype_TEXT", r)
    /\ input' = [input EXCEPT !.handling = <<>>, !.active = @ - 1]
    /\ pc' = "loop"
    /\ UNCHANGED currentScreen

NextRelay ==
    \/ RelayArrive /\ UNCHANGED clock
    \/ RelayDeliver /\ UNCHANGED clock
    \/ RelayStep /\ UNCHANGED clock
    \/ RelayReturn /\ UNCHANGED clock

SpecRelay == InitRelay /\ [][NextRelay]_vars

IsPrefix(s, t) == Len(s) <= Len(t) /\ SubSeq(t, 1, Len(s)) = s

\* C29: relayed requests are processed one at a time: at most one callback
\* runs, a request is delivered only when every request delivered before it
\* has been answered, and the responses leave in the order the requests
\* arrived.
C29_OneRequestAtATime ==
    /\ input.active <= 1
    /\ IsPrefix(input.responded, input.delivered)
    /\ IsPrefix(input.delivered, input.arrived)
    /\ Len(input.delivered) - Len(input.responded) <= 1
    /\ pc = "loop" => input.responded = input.delivered
    /\ (pc = "webSocketEvent" /\ Sends(log) # {}) => input.responded = input.delivered

\* The executor has been called for r1 and nothing is sent yet, while r2
\* has arrived and waits.
C29_Witness ==
    /\ pc = "webSocketEvent"
    /\ Called(log, "processTunnelRequest")
    /\ Sends(log) = {}
    /\ input.arrived = <<"r1", "r2">>
    /\ input.delivered = <<"r1">>
    /\ input.responded = <<>>
    /\ Len(input.inbox) = 1

-----------------------------------------------------------------------------
(* Tunnel Session: who writes the connection flag *)

\* C30: the tunnel connection flag changes only on transport events: it
\* becomes true only on the connect event and false only on the disconnect
\* or error event; text messages of any type, the timers, connectTunnel(),
\* setup() and the buttons leave it as it is.
C30_FlagChangesOnTransportEventsOnly ==
    [][/\ (~tunnelConnected /\ tunnelConnected') => lastOp' = "WStype_CONNECTED"
       /\ (tunnelConnected /\ ~tunnelConnected')
              => lastOp' \in {"WStype_DISCONNECTED", "WStype_ERROR"}
       /\ lastOp' \in {"WStype_TEXT", "WStype_PING", "WStype_PONG", "setup", "BtnA",
                       "BtnB", "heartbeatTimer", "tunnelTimer", "discoveryTimer"}
              => tunnelConnected' = tunnelConnected]_vars

\* The transport reported an error, the client is still attached, and a
\* text message has been handled since: the flag is still false.
C30_Witness ==
    /\ lastOp = "WStype_TEXT"
    /\ wsState = "connected"
    /\ ~tunnelConnected
    /\ registryConnected

-----------------------------------------------------------------------------
(* Tunnel Session: what handling a request leaves behind *)

\* C31: handling a relayed request leaves the registration state, the
\* heartbeat failure counter, the endpoint, the peer snapshot and the tunnel
\* connection flag as they were, and writes no global but the display's
\* showingMessage flag: nothing of the request is kept.
C31_RequestLeavesCoreUntouched ==
    [][Called(log', "processTunnelRequest") =>
         /\ registryConnected' = registryConnected
         /\ heartbeatFailures' = heartbeatFailures
         /\ registryUrl' = registryUrl
         /\ discoveredAgents' = discoveredAgents
         /\ tunnelConnected' = tunnelConnected
         /\ wifiConnected' = wifiConnected
         /\ \A i \in 1..Len(log') : log'[i].k = "set" => log'[i].name = "showingMessage"
         /\ Cardinality(Sends(log')) = 1]_vars

\* A request has been answered on a device with failures counted and a peer
\* known; both are still there.
C31_Witness ==
    /\ lastOp = "WStype_TEXT"
    /\ Called(log, "processTunnelRequest")
    /\ Sends(log) # {}
    /\ HasEvent(log, SetFlag("showingMessage", TRUE))
    /\ registryConnected
    /\ heartbeatFailures = 2
    /\ Len(discoveredAgents) = 1
    /\ tunnelConnected

-----------------------------------------------------------------------------
(* Registration Client: the range of the failure counter *)

\* C32: in every reachable state the heartbeat failure counter is between 0
\* and 4, and at most 3 while the device is registered; it gets above 3 only
\* in a heartbeat that drops the registration and whose re-registration
\* fails, which leaves the device unregistered.
C32_FailureCounterRange ==
    [][/\ heartbeatFailures \in 0..4 /\ heartbeatFailures' \in 0..4
       /\ registryConnected => heartbeatFailures <= 3
       /\ registryConnected' => heartbeatFailures' <= 3
       /\ (heartbeatFailures <= 3 /\ heartbeatFailures' > 3) =>
              /\ HasEvent(log', Dropped)
              /\ PostsTo(log', "/agents") # {}
              /\ ~RegisterSucceeded(log')
              /\ ~registryConnected']_vars

\* The counter stands at 4 on an unregistered device, and a later peer
\* refresh has left it there.
C32_Witness ==
    /\ lastOp = "discoveryTimer"
    /\ heartbeatFailures = 4
    /\ ~registryConnected
    /\ wifiConnected


-----------------------------------------------------------------------------
(* C33: registration once lost comes back only by the manual refresh *)

TimerOps == {"heartbeatTimer", "tunnelTimer", "discoveryTimer"}

\* C33: a timer-driven step of an unregistered device never calls
\* registerWithRegistry and leaves the device unregistered; the only
\* timer-driven call of registerWithRegistry is the one inside the heartbeat
\* that drops the registration; after start-up an unregistered device becomes
\* registered only by button A on the discovery screen, whose refresh calls
\* registerWithRegistry only when the device is not registered.
C33_OnlyManualRefreshRestores ==
    [][/\ (lastOp' \in TimerOps /\ ~registryConnected) =>
             /\ ~Called(log', "registerWithRegistry")
             /\ PostsTo(log', "/agents") = {}
             /\ ~registryConnected'
       /\ (lastOp' \in TimerOps /\ Called(log', "registerWithRegistry")) =>
             /\ lastOp' = "heartbeatTimer"
             /\ registryConnected
             /\ HasEvent(log', Dropped)
       /\ (pc = "loop" /\ ~registryConnected /\ registryConnected') =>
             /\ lastOp' = "BtnA"
             /\ currentScreen = MENU_DISCOVERY
             /\ RegisterSucceeded(log')
       /\ (lastOp' = "BtnA" /\ currentScreen = MENU_DISCOVERY
              /\ Called(log', "registerWithRegistry")) => ~registryConnected]_vars

\* The heartbeat timer fires after the re-registration failed: nothing is
\* sent to the registry and the device is still unregistered.
C33_Witness ==
    /\ lastOp = "heartbeatTimer"
    /\ heartbeatFailures = 4
    /\ ~registryConnected
    /\ wifiConnected
    /\ ~Called(log, "registerWithRegistry")
    /\ PostsTo(log, "/heartbeat") = {}


-----------------------------------------------------------------------------
(* C34: the tunnel outlives the registration *)

\* C34: the step in which the heartbeat drops the registration leaves
\* tunnelConnected as it was; with the tunnel connected and the device
\* unregistered a relayed request is still answered with one response and
\* the heartbeat timer still sends the tunnel heartbeat.
C34_TunnelOutlivesRegistration ==
    [][/\ HasEvent(log', Dropped) => tunnelConnected' = tunnelConnected
       /\ (tunnelConnected /\ ~registryConnected /\ Called(log', "processTunnelRequest")) =>
             /\ Cardinality(Sends(log')) = 1
             /\ \A i \in Sends(log') : log'[i].msg.type = "response"
             /\ tunnelConnected' /\ ~registryConnected'
       /\ (tunnelConnected /\ ~registryConnected /\ lastOp' = "heartbeatTimer") =>
             /\ EmitsHeartbeat(log')
             /\ PostsTo(log', "/heartbeat") = {}
             /\ tunnelConnected' /\ ~registryConnected']_vars

\* The registration has just been dropped with the tunnel connected: the
\* same timer step has sent the tunnel heartbeat.
C34_Witness ==
    /\ lastOp = "heartbeatTimer"
    /\ HasEvent(log, Dropped)
    /\ ~RegisterSucceeded(log)
    /\ ~registryConnected
    /\ tunnelConnected
    /\ EmitsHeartbeat(log)


-----------------------------------------------------------------------------
(* C35: the tunnel timer under a control loop that keeps running *)

\* loop() runs pass after pass and millis() advances: a timer whose test
\* stays true fires, and time passes while none is due.
SpecLive ==
    /\ Init
    /\ [][NextTimed]_vars
    /\ WF_vars(Tick)
    /\ WF_vars(TimedHeartbeat)
    /\ WF_vars(TimedTunnel)

NeedsTunnel == wifiConnected /\ registryConnected /\ ~tunnelConnected

LoopConnects == lastOp = "tunnelTimer" /\ Called(log, "connectTunnel")

\* C35: while WiFi is connected and the device stays registered with the
\* tunnel disconnected, loop() calls connectTunnel, again and again: at any
\* time a step of the tunnel timer calling connectTunnel lies ahead, unless
\* the registration is lost or the tunnel comes up first.  The state button A
\* leaves after registering the device with no tunnel is such a state.
C35_TunnelAttemptFollows == []<>(~NeedsTunnel \/ LoopConnects)

\* loop() has called connectTunnel for a registered device whose tunnel is
\* down, and lastTunnelCheck is set anew.
C35_Witness ==
    /\ LoopConnects /\ Began(log)
    /\ NeedsTunnel
    /\ wsState = "connecting"
    /\ clock.sinceTunnelCheck = 0


-----------------------------------------------------------------------------
(* C36: no WiFi at startup *)

\* C36: wifiConnected is decided in setup and never written afterwards; a
\* device whose WiFi association failed has not run autoDetectRegistry, has
\* an empty registryUrl and is unregistered, and no step of it, by a timer or
\* a button, issues a network call: no registration, heartbeat or peer
\* request, no tunnel connection attempt, no message on the tunnel.
C36_NoWifiNoTraffic ==
    [][/\ pc = "loop" => wifiConnected' = wifiConnected
       /\ (pc' = "loop" /\ ~wifiConnected') =>
             /\ registryUrl' = <<>>
             /\ ~registryConnected'
             /\ ~tunnelConnected'
             /\ wsState' = "idle"
             /\ ~Called(log', "autoDetectRegistry")
             /\ NetCalls(log') = <<>>]_vars

\* Without WiFi button A on the discovery screen has called
\* registerWithRegistry and discoverAgents: both have returned at once.
C36_Witness ==
    /\ ~wifiConnected
    /\ lastOp = "BtnA"
    /\ currentScreen = MENU_DISCOVERY
    /\ Called(log, "registerWithRegistry")
    /\ Called(log, "discoverAgents")
    /\ NetCalls(log) = <<>>
    /\ registryUrl = <<>>


-----------------------------------------------------------------------------
(* C37: a response that lists no agents *)

ListsNoAgents(resp) == resp.code = 200 /\ resp.parses /\ resp.agents = <<>>

\* C37: a peer refresh answered 200 with a body that parses and has no
\* agents array, or an empty one, succeeds with zero peers: the snapshot is
\* empty afterwards whatever it held before, while a refresh answered with
\* another status, not at all, or with a body that does not parse keeps the
\* snapshot it found.
C37_EmptyListEmptiesSnapshot ==
    [][lastOp' = "discoverAgents" =>
          /\ ListsNoAgents(input') =>
                /\ GetsTo(log', "/agents") # {}
                /\ discoveredAgents' = <<>>
                /\ Len(discoveredAgents') = 0
          /\ RefreshFailed(input') => discoveredAgents' = discoveredAgents]_vars

\* A 200 that lists no agents has just been taken in: no peer is known.
C37_Witness ==
    /\ lastOp = "discoverAgents"
    /\ ListsNoAgents(input)
    /\ GetsTo(log, "/agents") # {}
    /\ discoveredAgents = <<>>


-----------------------------------------------------------------------------
(* C38: the route depends on the path alone *)

RouteMethods == {r.method : r \in RouteInputs}
RouteBodies == {r.body : r \in RouteInputs}

\* C38: the result processTunnelRequest has given for a request is the one
\* it gives for every request with the same path, whatever the method and
\* the body: the same handler with the same parameters, or the same error.
C38_RouteDependsOnPathOnly ==
    pc = "routed" =>
        \A method \in RouteMethods, body \in RouteBodies :
            processTunnelRequest(method, input.path, body) = log[2].result

\* A POST with a body has sounded the buzzer with the parameters of its path.
C38_Witness ==
    /\ pc = "routed"
    /\ input.method = "POST" /\ input.body = "{}"
    /\ log[2].result = [handler |-> "handleBuzzerTone", freq |-> 440, duration |-> 50]

====
